---- MODULE Spec2Model ----
(***************************************************************************)
(* A model of the SisCrystal desktop-shell backend (src-tauri/src/lib.rs): *)
(*   - the two single-slot telemetry caches behind get_system_info and     *)
(*     get_network_info, with their OnceLock initialisers and mutexes;     *)
(*   - the backend chains of the audio and media operations;               *)
(*   - the write commands (brightness, wallpaper, settings, system action);*)
(*   - the desktop-entry catalogue of get_installed_apps;                  *)
(*   - the icon resolver.                                                  *)
(* Each part has a specification of its own over the shared variables.     *)
(***************************************************************************)
EXTENDS Integers, Sequences, FiniteSets, TLC

VARIABLES
    now,        \* std::time::Instant::now(), in whole seconds
    pc,         \* per thread: its position inside the running command
    cmd,        \* per thread: the cache domain of the command it runs
    SYS,        \* OnceLock of the sysinfo handle: "uninit", "running", "done"
    sys_mutex,  \* holder of the Mutex<System> (NoThread when free)
    cacheOnce,  \* per domain: OnceLock state of LAST_*_REFRESH
    cacheLock,  \* per domain: holder of the Mutex around the slot
    cache,      \* per domain: the slot (Instant, Info) inside the Mutex
    info,       \* per thread: the snapshot it has built from its probes
    returned,   \* the value most recently returned by a command
    invoked,    \* how many cached commands have been invoked so far
    invocation, \* the command most recently run and its arguments
    trace,      \* the external invocations it made, in order, with outcomes
    result,     \* what it returned
    players,    \* the MPRIS players it enumerated, in enumeration order
    chosen,     \* the position of the player it chose (0: none)
    settings_file, \* what settings.json holds
    files,      \* the desktop-entry files in scan order
    apps,       \* the list get_installed_apps returned
    icon_files  \* the regular files that exist where icons are looked for

cacheVars == <<now, pc, cmd, SYS, sys_mutex, cacheOnce, cacheLock, cache, info, returned, invoked>>
chainVars == <<invocation, trace, result, players, chosen, settings_file>>
catalogVars == <<files, apps, icon_files>>
vars == <<now, pc, cmd, SYS, sys_mutex, cacheOnce, cacheLock, cache, info, returned, invoked,
          invocation, trace, result, players, chosen, settings_file, files, apps, icon_files>>

(***************************************************************************)
(* Text helpers.  A string the program inspects is a sequence of           *)
(* one-character strings.                                                  *)
(***************************************************************************)

None == <<>>
Some(x) == <<x>>

\* The left operand whatever the right one is: no upper limit.
Unlimited(a, b) == a
Min(a, b) == IF a <= b THEN a ELSE b
MinOf(S) == CHOOSE x \in S : \A y \in S : x <= y

DigitChars == <<"0", "1", "2", "3", "4", "5", "6", "7", "8", "9">>
LowerChars == <<"a", "b", "c", "d", "e", "f", "g", "h", "i", "j", "k", "l", "m", "n", "o", "p", "q", "r", "s", "t", "u", "v", "w", "x", "y", "z">>
UpperChars == <<"A", "B", "C", "D", "E", "F", "G", "H", "I", "J", "K", "L", "M", "N", "O", "P", "Q", "R", "S", "T", "U", "V", "W", "X", "Y", "Z">>

\* u8::is_ascii_digit
is_ascii_digit(c) == \E i \in 1..10 : DigitChars[i] = c
DigitValue(c) == (CHOOSE i \in 1..10 : DigitChars[i] = c) - 1

\* char::to_uppercase / to_lowercase on the ASCII letters
UpperChar(c) == IF \E i \in 1..26 : LowerChars[i] = c
                THEN UpperChars[CHOOSE i \in 1..26 : LowerChars[i] = c] ELSE c
LowerChar(c) == IF \E i \in 1..26 : UpperChars[i] = c
                THEN LowerChars[CHOOSE i \in 1..26 : UpperChars[i] = c] ELSE c
to_uppercase(s) == [i \in 1..Len(s) |-> UpperChar(s[i])]
to_lowercase(s) == [i \in 1..Len(s) |-> LowerChar(s[i])]

\* str::contains
contains(s, pat) == \E i \in 1..(Len(s) - Len(pat) + 1) : SubSeq(s, i, i + Len(pat) - 1) = pat

\* char::is_whitespace, on the characters that occur
is_whitespace(c) == c \in {" ", "\n", "\t"}

MaxOf(S) == CHOOSE x \in S : \A y \in S : x >= y

\* str::trim
trim(s) ==
    LET solid == {i \in 1..Len(s) : ~is_whitespace(s[i])}
    IN  IF solid = {} THEN <<>> ELSE SubSeq(s, MinOf(solid), MaxOf(solid))

\* The value of a run of decimal digits.
RECURSIVE DecimalValue(_)
DecimalValue(ds) ==
    IF ds = <<>> THEN 0
    ELSE 10 * DecimalValue(SubSeq(ds, 1, Len(ds) - 1)) + DigitValue(ds[Len(ds)])

RECURSIVE Pow10(_)
Pow10(k) == IF k = 0 THEN 1 ELSE 10 * Pow10(k - 1)

\* u32::MAX, as its decimal digits (the number itself is wider than the
\* integers of the model checker).
U32_MAX == <<"4", "2", "9", "4", "9", "6", "7", "2", "9", "5">>

RECURSIVE strip_zeros(_)
strip_zeros(ds) == IF Len(ds) > 1 /\ ds[1] = "0" THEN strip_zeros(Tail(ds)) ELSE ds

\* Numeric order of two digit runs of the same length.
RECURSIVE digits_leq(_, _)
digits_leq(a, b) ==
    IF a = <<>> THEN TRUE
    ELSE IF DigitValue(a[1]) # DigitValue(b[1]) THEN DigitValue(a[1]) < DigitValue(b[1])
    ELSE digits_leq(Tail(a), Tail(b))

fits_u32(ds) ==
    LET n == strip_zeros(ds)
    IN  Len(n) < Len(U32_MAX) \/ (Len(n) = Len(U32_MAX) /\ digits_leq(n, U32_MAX))

\* str::parse::<u32> on a non-empty run of digits: fails on overflow.
parse_u32(ds) == IF fits_u32(ds) THEN Some(DecimalValue(ds)) ELSE None

\* str::split_whitespace().next()
first_token(s) ==
    LET starts == {i \in 1..Len(s) : ~is_whitespace(s[i])}
    IN  IF starts = {} THEN None
        ELSE LET b == MinOf(starts)
                 ends == {i \in b..Len(s) : i = Len(s) \/ is_whitespace(s[i + 1])}
             IN  Some(SubSeq(s, b, MinOf(ends)))

\* str::split(':').nth(1)
split_colon_nth1(s) ==
    LET colons == {i \in 1..Len(s) : s[i] = ":"}
    IN  IF colons = {} THEN None
        ELSE LET c1 == MinOf(colons)
                 later == {i \in colons : i > c1}
                 c2 == IF later = {} THEN Len(s) + 1 ELSE MinOf(later)
             IN  Some(SubSeq(s, c1 + 1, c2 - 1))

\* str::parse::<f32>, then (number * 100.0).round(): the decimal forms
\* [+-]digits[.digits] and [+-].digits; the result is the rounded hundredfold
\* (half away from zero).  Exponents, inf and nan are not among the outputs
\* modelled.
parse_f32_times_100(tok) ==
    LET signed == Len(tok) > 0 /\ tok[1] \in {"-", "+"}
        body == IF signed THEN SubSeq(tok, 2, Len(tok)) ELSE tok
        dots == {i \in 1..Len(body) : body[i] = "."}
        whole == IF dots = {} THEN body ELSE SubSeq(body, 1, MinOf(dots) - 1)
        frac == IF dots = {} THEN <<>> ELSE SubSeq(body, MinOf(dots) + 1, Len(body))
        ds == whole \o frac
        wellformed == /\ Cardinality(dots) <= 1
                      /\ ds # <<>>
                      /\ \A i \in 1..Len(ds) : is_ascii_digit(ds[i])
        magnitude == (2 * 100 * DecimalValue(ds) + Pow10(Len(frac))) \div (2 * Pow10(Len(frac)))
    IN  IF ~wellformed THEN None
        ELSE Some(IF signed /\ tok[1] = "-" THEN 0 - magnitude ELSE magnitude)

\* i32::clamp
clamp(x, lo, hi) == IF x < lo THEN lo ELSE IF x > hi THEN hi ELSE x

\* parse_first_percent_value: the number in front of the first '%' that has a
\* number in front of it which fits a u32.
parse_first_percent_value(s) ==
    LET RunStart(i) == MinOf({j \in 1..i : \A k \in j..(i - 1) : is_ascii_digit(s[k])})
        hits == {i \in 2..Len(s) :
                    /\ s[i] = "%"
                    /\ RunStart(i) < i
                    /\ parse_u32(SubSeq(s, RunStart(i), i - 1)) # None}
    IN  IF hits = {} THEN None
        ELSE parse_u32(SubSeq(s, RunStart(MinOf(hits)), MinOf(hits) - 1))

\* parse_wpctl_volume: "Volume: 0.52" or "Volume: 0.52 [MUTED]"
parse_wpctl_volume(output) ==
    LET muted == contains(to_uppercase(output), <<"M", "U", "T", "E", "D">>)
        after == split_colon_nth1(output)
        token == IF after = None THEN None ELSE first_token(after[1])
        number == IF token = None THEN None ELSE parse_f32_times_100(token[1])
    IN  IF number = None THEN None
        ELSE Some([volume |-> clamp(number[1], 0, 150), is_muted |-> muted])

\* str::starts_with
starts_with(s, prefix) == Len(s) >= Len(prefix) /\ SubSeq(s, 1, Len(prefix)) = prefix

\* section.attr(key).unwrap_or(default)
unwrap_or(option, default) == IF option = None THEN default ELSE option[1]

\* str::split(sep)
RECURSIVE split(_, _)
split(s, sep) ==
    LET at == {i \in 1..Len(s) : s[i] = sep}
    IN  IF at = {} THEN <<s>>
        ELSE <<SubSeq(s, 1, MinOf(at) - 1)>> \o split(SubSeq(s, MinOf(at) + 1, Len(s)), sep)

\* What the environment does with one std::process::Command: it cannot be
\* spawned, or it exits with a status, having written stdout and stderr.
SpawnError == "No such file or directory (os error 2)"
Stderr == "Connection failure: Connection refused"
Processes(stdouts) ==
    {[spawned |-> FALSE, success |-> FALSE, stdout |-> <<>>, stderr |-> SpawnError]}
    \cup {[spawned |-> TRUE, success |-> FALSE, stdout |-> <<>>, stderr |-> Stderr]}
    \cup {[spawned |-> TRUE, success |-> TRUE, stdout |-> o, stderr |-> ""] : o \in stdouts}

\* run_command: Ok(stdout) on exit status zero, Err(stderr) otherwise, Err(the
\* io error) when the command cannot be run.  The invocation is kept with its
\* result.
run_command(program, args, process) ==
    [cmd |-> program, args |-> args,
     ok |-> process.spawned /\ process.success,
     stdout |-> IF process.spawned /\ process.success THEN process.stdout ELSE <<>>,
     err |-> IF process.spawned /\ process.success THEN "" ELSE process.stderr]

(***************************************************************************)
(* Part 1: the telemetry caches.                                           *)
(***************************************************************************)

\* Bounds of the model.
NThreads == 2
MaxTime == 3
MaxInvoked == 3

Threads == 1..NThreads
NoThread == 0
Domains == {"system", "network"}

\* Cache durations in seconds.
SYSTEM_CACHE_DURATION == 1
NETWORK_CACHE_DURATION == 3

CacheDuration(d) == IF d = "system" THEN SYSTEM_CACHE_DURATION ELSE NETWORK_CACHE_DURATION

\* A snapshot is modelled by the provenance of its fields: the instant at which
\* the probes ran that produced the first field (cpu_usage, is_connected) and the
\* instant for the remaining ones.  A record built by one refresh has the same
\* provenance in both.  stamp_of is the provenance of the record for which
\* last_refresh was written.  A returned value is kept with the time that had
\* passed since its probes when it was returned (age).
Never == -1
\* With the provenance go the outcomes of those probes (probes: the external
\* commands run, with their results) and the field values built from them
\* (value: Some(record), None while there is no snapshot).
NoInfo == [head |-> Never, rest |-> Never, probes |-> <<>>, value |-> None]
EmptySlot == [last_refresh |-> 0, stamp_of |-> Never, head |-> Never, rest |-> Never,
              probes |-> <<>>, value |-> None]
NoReturn == [domain |-> "none", path |-> "none", head |-> Never, rest |-> Never,
             stamp_of |-> Never, age |-> 0, probes |-> <<>>, value |-> None]

\* str::lines
lines(s) ==
    LET parts == split(s, "\n")
    IN  IF parts[Len(parts)] = <<>> THEN SubSeq(parts, 1, Len(parts) - 1) ELSE parts

\* str::trim_start_matches(pat)
RECURSIVE trim_start_matches(_, _)
trim_start_matches(s, pat) ==
    IF pat # <<>> /\ starts_with(s, pat)
    THEN trim_start_matches(SubSeq(s, Len(pat) + 1, Len(s)), pat)
    ELSE s

YES == <<"y", "e", "s", ":">>

\* output.lines().find(|line| line.starts_with("yes:"))
\*     .map(|line| line.trim_start_matches("yes:").to_string())
active_ssid(output) ==
    LET ls == lines(output)
        hits == {i \in 1..Len(ls) : starts_with(ls[i], YES)}
    IN  IF hits = {} THEN None ELSE Some(trim_start_matches(ls[MinOf(hits)], YES))

\* The outcomes of the nmcli and hostname commands of one network refresh.
network_probes(nmcli, hostname) ==
    <<run_command("nmcli", <<"-t", "-f", "active,ssid", "dev", "wifi">>, nmcli),
      run_command("hostname", <<"-I">>, hostname)>>

\* A NetworkInfo that is connected whenever nmcli ran successfully.
network_info_connected_on_success(probes) ==
    LET ssid == IF probes[1].ok THEN active_ssid(probes[1].stdout) ELSE None
        ip_address == IF probes[2].ok THEN first_token(probes[2].stdout) ELSE None
    IN  [is_connected |-> probes[1].ok, ssid |-> ssid, signal_strength |-> None,
         ip_address |-> ip_address]

\* The NetworkInfo built from them.
network_info(probes) ==
    LET ssid == IF probes[1].ok THEN active_ssid(probes[1].stdout) ELSE None
        ip_address == IF probes[2].ok THEN first_token(probes[2].stdout) ELSE None
    IN  [is_connected |-> ssid # None, ssid |-> ssid, signal_strength |-> None,
         ip_address |-> ip_address]

\* The SystemInfo built by one refresh: the fields that come from an optional
\* reading fall back to the default (empty) string.
system_info(host_name) == [hostname |-> unwrap_or(host_name, <<>>)]

\* What the environment answers to the probes of one refresh.
NmcliOutputs == {<<"n", "o", ":", "c", "a", "f", "e", "\n", "y", "e", "s", ":", "h", "o", "m", "e", "\n">>, <<"n", "o", ":", "c", "a", "f", "e", "\n">>}
HostnameOutputs == {<<"1", "0", ".", "0", ".", "0", ".", "2", " ", "f", "e", "8", "0", ":", ":", "1", " ", "\n">>}
HostNames == {None, Some(<<"p", "c">>)}
Outcomes ==
    {[domain |-> "network", nmcli |-> n, hostname |-> h] :
        n \in Processes(NmcliOutputs), h \in Processes(HostnameOutputs)}
    \cup {[domain |-> "system", host_name |-> h] : h \in HostNames}

\* The answers when nothing fails.
NominalOutcomes ==
    {o \in Outcomes :
        IF o.domain = "system" THEN o.host_name # None
        ELSE /\ o.nmcli.success /\ active_ssid(o.nmcli.stdout) # None
             /\ o.hostname.success}

\* The probes of one refresh: sys.refresh_memory() and the reads that follow it,
\* or the nmcli and hostname commands.
\* What one refresh builds from each answer of the environment.
Built ==
    [o \in Outcomes |->
        IF o.domain = "network"
        THEN [probes |-> network_probes(o.nmcli, o.hostname),
              value |-> Some(network_info(network_probes(o.nmcli, o.hostname)))]
        ELSE [probes |-> <<>>, value |-> Some(system_info(o.host_name))]]

Probe(o) ==
    [head |-> now, rest |-> now, probes |-> Built[o].probes, value |-> Built[o].value]

\* A command is invoked on a thread of the runtime's pool.
Invoke(t, d) ==
    /\ pc[t] = "idle"
    /\ invoked < MaxInvoked
    /\ invoked' = invoked + 1
    /\ cmd' = [cmd EXCEPT ![t] = d]
    /\ pc' = [pc EXCEPT ![t] = IF d = "system" THEN "sys_once" ELSE "cache_once"]
    /\ UNCHANGED <<now, SYS, sys_mutex, cacheOnce, cacheLock, cache, info, returned>>

\* SYS.get_or_init(..): the first caller runs the initialiser, callers that
\* arrive while it runs block, later callers pass.
SysOnce(t) ==
    /\ pc[t] = "sys_once"
    /\ SYS # "running"
    /\ IF SYS = "uninit"
       THEN /\ SYS' = "running"
            /\ pc' = [pc EXCEPT ![t] = "sys_init"]
       ELSE /\ pc' = [pc EXCEPT ![t] = "cache_once"]
            /\ UNCHANGED SYS
    /\ UNCHANGED <<now, cmd, sys_mutex, cacheOnce, cacheLock, cache, info, returned, invoked>>

\* System::new(); sys.refresh_all(); Mutex::new(sys)
SysInit(t) ==
    /\ pc[t] = "sys_init"
    /\ SYS' = "done"
    /\ pc' = [pc EXCEPT ![t] = "cache_once"]
    /\ UNCHANGED <<now, cmd, sys_mutex, cacheOnce, cacheLock, cache, info, returned, invoked>>

\* LAST_*_REFRESH.get_or_init(|| ..) of the freshness check: the first caller
\* runs the initialiser, callers that arrive while it runs block.
CacheOnce(t) ==
    /\ pc[t] = "cache_once"
    /\ cacheOnce[cmd[t]] # "running"
    /\ IF cacheOnce[cmd[t]] = "uninit"
       THEN /\ cacheOnce' = [cacheOnce EXCEPT ![cmd[t]] = "running"]
            /\ pc' = [pc EXCEPT ![t] = "init_probe"]
       ELSE /\ pc' = [pc EXCEPT ![t] = "check"]
            /\ UNCHANGED cacheOnce
    /\ UNCHANGED <<now, cmd, SYS, sys_mutex, cacheLock, cache, info, returned, invoked>>

\* get_system_info probes under the sysinfo guard: sys_mutex.lock() blocks while
\* another thread holds it.  get_network_info takes no lock for its probes.
CanProbe(t) == cmd[t] = "system" => sys_mutex = NoThread

\* Inside the initialiser: (sys_mutex.lock(),) the probes, the first snapshot.
InitProbe(t, o) ==
    /\ pc[t] = "init_probe"
    /\ o.domain = cmd[t]
    /\ CanProbe(t)
    /\ sys_mutex' = IF cmd[t] = "system" THEN t ELSE sys_mutex
    /\ info' = [info EXCEPT ![t] = Probe(o)]
    /\ pc' = [pc EXCEPT ![t] = "init_store"]
    /\ UNCHANGED <<now, cmd, SYS, cacheOnce, cacheLock, cache, returned, invoked>>

\* Inside the initialiser: Mutex::new((Instant::now(), info)); the closure ends,
\* dropping the sysinfo guard it took.
InitStore(t) ==
    /\ pc[t] = "init_store"
    /\ cache' = [cache EXCEPT ![cmd[t]] =
                    [last_refresh |-> now, stamp_of |-> info[t].head,
                     head |-> info[t].head, rest |-> info[t].rest,
                     probes |-> info[t].probes, value |-> info[t].value]]
    /\ cacheOnce' = [cacheOnce EXCEPT ![cmd[t]] = "done"]
    /\ sys_mutex' = IF sys_mutex = t THEN NoThread ELSE sys_mutex
    /\ info' = [info EXCEPT ![t] = NoInfo]
    /\ pc' = [pc EXCEPT ![t] = "check"]
    /\ UNCHANGED <<now, cmd, SYS, cacheLock, returned, invoked>>

\* A slot read and written without waiting for its mutex.
CanLock_unguarded(t, d) == TRUE

\* Mutex::lock on the slot: blocks while another thread holds it.
CanLock(t, d) == cacheLock[d] = NoThread

\* last_refresh.elapsed() < *_CACHE_DURATION
Fresh(d, last_refresh) == now - last_refresh < CacheDuration(d)

\* A freshness check that renews the timestamp of the slot it finds fresh.
Check_touching(t) ==
    /\ pc[t] = "check"
    /\ CanLock(t, cmd[t])
    /\ LET d == cmd[t]
           slot == cache[d]
       IN  IF Fresh(d, slot.last_refresh)
           THEN /\ returned' = [domain |-> d, path |-> "cached", head |-> slot.head,
                             rest |-> slot.rest, stamp_of |-> slot.stamp_of,
                             age |-> now - slot.head,
                             probes |-> slot.probes, value |-> slot.value]
                /\ cache' = [cache EXCEPT ![d].last_refresh = now]
                /\ pc' = [pc EXCEPT ![t] = "idle"]
                /\ cmd' = [cmd EXCEPT ![t] = "none"]
           ELSE /\ pc' = [pc EXCEPT ![t] = "probe"]
                /\ UNCHANGED <<returned, cmd, cache>>
    /\ UNCHANGED <<now, SYS, sys_mutex, cacheOnce, cacheLock, info, invoked>>

\* The freshness check: .lock(); let (last_refresh, cached_info) =
\* cache_guard.clone(); return the clone when it is fresh.  Either way the guard
\* is dropped at the end of the if-let: the refresh that follows an expired
\* check starts without it.
Check(t) ==
    /\ pc[t] = "check"
    /\ CanLock(t, cmd[t])
    /\ LET d == cmd[t]
           slot == cache[d]
       IN  IF Fresh(d, slot.last_refresh)
           THEN /\ returned' = [domain |-> d, path |-> "cached", head |-> slot.head,
                             rest |-> slot.rest, stamp_of |-> slot.stamp_of,
                             age |-> now - slot.head,
                             probes |-> slot.probes, value |-> slot.value]
                /\ pc' = [pc EXCEPT ![t] = "idle"]
                /\ cmd' = [cmd EXCEPT ![t] = "none"]
           ELSE /\ pc' = [pc EXCEPT ![t] = "probe"]
                /\ UNCHANGED <<returned, cmd>>
    /\ UNCHANGED <<now, SYS, sys_mutex, cacheOnce, cacheLock, cache, info, invoked>>

\* "Cache expired, refresh": (let mut sys = sys_mutex.lock(), a guard that lives
\* to the end of the function,) the probes and the record built from them.
RunProbes(t, o) ==
    /\ pc[t] = "probe"
    /\ o.domain = cmd[t]
    /\ CanProbe(t)
    /\ sys_mutex' = IF cmd[t] = "system" THEN t ELSE sys_mutex
    /\ info' = [info EXCEPT ![t] = Probe(o)]
    /\ pc' = [pc EXCEPT ![t] = "store_stamp"]
    /\ UNCHANGED <<now, cmd, SYS, cacheOnce, cacheLock, cache, returned, invoked>>

\* LAST_*_REFRESH.get_or_init(..).lock() of the store (the OnceLock is set by
\* now), then cache_guard.0 = Instant::now()
StoreStamp(t) ==
    /\ pc[t] = "store_stamp"
    /\ CanLock(t, cmd[t])
    /\ cacheLock' = [cacheLock EXCEPT ![cmd[t]] = t]
    /\ cache' = [cache EXCEPT ![cmd[t]].last_refresh = now,
                              ![cmd[t]].stamp_of = info[t].head]
    /\ pc' = [pc EXCEPT ![t] = "store_head"]
    /\ UNCHANGED <<now, cmd, SYS, sys_mutex, cacheOnce, info, returned, invoked>>

\* cache_guard.1 = info.clone(): the record is copied into the slot field after
\* field; only the mutex makes the copy indivisible.  First part.
StoreHead(t) ==
    /\ pc[t] = "store_head"
    /\ cache' = [cache EXCEPT ![cmd[t]].head = info[t].head]
    /\ pc' = [pc EXCEPT ![t] = "store_rest"]
    /\ UNCHANGED <<now, cmd, SYS, sys_mutex, cacheOnce, cacheLock, info, returned, invoked>>

\* A store that returns with the sysinfo guard still held.
StoreRest_keeping_guard(t) ==
    /\ pc[t] = "store_rest"
    /\ cache' = [cache EXCEPT ![cmd[t]].rest = info[t].rest,
                              ![cmd[t]].probes = info[t].probes,
                              ![cmd[t]].value = info[t].value]
    /\ cacheLock' = [cacheLock EXCEPT ![cmd[t]] = NoThread]
    /\ sys_mutex' = sys_mutex
    /\ returned' = [domain |-> cmd[t], path |-> "refreshed", head |-> info[t].head,
                    rest |-> info[t].rest, stamp_of |-> info[t].head,
                    age |-> now - info[t].head,
                    probes |-> info[t].probes, value |-> info[t].value]
    /\ info' = [info EXCEPT ![t] = NoInfo]
    /\ pc' = [pc EXCEPT ![t] = "idle"]
    /\ cmd' = [cmd EXCEPT ![t] = "none"]
    /\ UNCHANGED <<now, SYS, cacheOnce, invoked>>

\* Second part of the copy; the guard is dropped, the function returns info and
\* with it drops the sysinfo guard.
StoreRest(t) ==
    /\ pc[t] = "store_rest"
    /\ cache' = [cache EXCEPT ![cmd[t]].rest = info[t].rest,
                              ![cmd[t]].probes = info[t].probes,
                              ![cmd[t]].value = info[t].value]
    /\ cacheLock' = [cacheLock EXCEPT ![cmd[t]] = NoThread]
    /\ sys_mutex' = IF sys_mutex = t THEN NoThread ELSE sys_mutex
    /\ returned' = [domain |-> cmd[t], path |-> "refreshed", head |-> info[t].head,
                    rest |-> info[t].rest, stamp_of |-> info[t].head,
                    age |-> now - info[t].head,
                    probes |-> info[t].probes, value |-> info[t].value]
    /\ info' = [info EXCEPT ![t] = NoInfo]
    /\ pc' = [pc EXCEPT ![t] = "idle"]
    /\ cmd' = [cmd EXCEPT ![t] = "none"]
    /\ UNCHANGED <<now, SYS, cacheOnce, invoked>>

\* A second passes, up to a limit of the model.
TickTo(limit) ==
    /\ now < limit
    /\ now' = now + 1
    /\ UNCHANGED <<pc, cmd, SYS, sys_mutex, cacheOnce, cacheLock, cache, info, returned, invoked>>

Tick == TickTo(MaxTime)

InitCache ==
    /\ now = 0
    /\ pc = [t \in Threads |-> "idle"]
    /\ cmd = [t \in Threads |-> "none"]
    /\ SYS = "uninit"
    /\ sys_mutex = NoThread
    /\ cacheOnce = [d \in Domains |-> "uninit"]
    /\ cacheLock = [d \in Domains |-> NoThread]
    /\ cache = [d \in Domains |-> EmptySlot]
    /\ info = [t \in Threads |-> NoInfo]
    /\ returned = NoReturn
    /\ invoked = 0
    /\ invocation = <<>>
    /\ trace = <<>>
    /\ result = <<>>
    /\ players = <<>>
    /\ chosen = 0
    /\ settings_file = [kind |-> "absent"]
    /\ files = <<>>
    /\ apps = <<>>
    /\ icon_files = {}

NextCache ==
    \/ Tick /\ UNCHANGED <<chainVars, catalogVars>>
    \/ \E t \in Threads, d \in Domains : Invoke(t, d) /\ UNCHANGED <<chainVars, catalogVars>>
    \/ \E t \in Threads : SysOnce(t) /\ UNCHANGED <<chainVars, catalogVars>>
    \/ \E t \in Threads : SysInit(t) /\ UNCHANGED <<chainVars, catalogVars>>
    \/ \E t \in Threads : CacheOnce(t) /\ UNCHANGED <<chainVars, catalogVars>>
    \/ \E t \in Threads, o \in NominalOutcomes : InitProbe(t, o) /\ UNCHANGED <<chainVars, catalogVars>>
    \/ \E t \in Threads : InitStore(t) /\ UNCHANGED <<chainVars, catalogVars>>
    \/ \E t \in Threads : Check(t) /\ UNCHANGED <<chainVars, catalogVars>>
    \/ \E t \in Threads, o \in NominalOutcomes : RunProbes(t, o) /\ UNCHANGED <<chainVars, catalogVars>>
    \/ \E t \in Threads : StoreStamp(t) /\ UNCHANGED <<chainVars, catalogVars>>
    \/ \E t \in Threads : StoreHead(t) /\ UNCHANGED <<chainVars, catalogVars>>
    \/ \E t \in Threads : StoreRest(t) /\ UNCHANGED <<chainVars, catalogVars>>

SpecCache == InitCache /\ [][NextCache]_vars

\* The calls of both commands under fair scheduling: a thread that can take
\* its next step (its lock is free, its initialiser has finished, its probe
\* returns) eventually takes it.  Invocations and the passing of time are
\* under no such obligation; time runs one second past the system cache
\* duration, so that calls of get_system_info, the command that takes the
\* sysinfo lock, go through both the fresh and the expired path.
Proceed(t) ==
    /\ \/ SysOnce(t) \/ SysInit(t) \/ CacheOnce(t)
       \/ \E o \in NominalOutcomes : InitProbe(t, o)
       \/ InitStore(t) \/ Check(t)
       \/ \E o \in NominalOutcomes : RunProbes(t, o)
       \/ StoreStamp(t) \/ StoreHead(t) \/ StoreRest(t)
    /\ UNCHANGED <<chainVars, catalogVars>>

InitCacheFair ==
    /\ now = 0
    /\ pc = [t \in Threads |-> "idle"]
    /\ cmd = [t \in Threads |-> "none"]
    /\ SYS = "uninit"
    /\ sys_mutex = NoThread
    /\ cacheOnce = [d \in Domains |-> "uninit"]
    /\ cacheLock = [d \in Domains |-> NoThread]
    /\ cache = [d \in Domains |-> EmptySlot]
    /\ info = [t \in Threads |-> NoInfo]
    /\ returned = NoReturn
    /\ invoked = 0
    /\ invocation = <<>>
    /\ trace = <<>>
    /\ result = <<>>
    /\ players = <<>>
    /\ chosen = 0
    /\ settings_file = [kind |-> "absent"]
    /\ files = <<>>
    /\ apps = <<>>
    /\ icon_files = {}

NextCacheFair ==
    \/ TickTo(SYSTEM_CACHE_DURATION + 1) /\ UNCHANGED <<chainVars, catalogVars>>
    \/ \E t \in Threads, d \in Domains : Invoke(t, d) /\ UNCHANGED <<chainVars, catalogVars>>
    \/ \E t \in Threads : SysOnce(t) /\ UNCHANGED <<chainVars, catalogVars>>
    \/ \E t \in Threads : SysInit(t) /\ UNCHANGED <<chainVars, catalogVars>>
    \/ \E t \in Threads : CacheOnce(t) /\ UNCHANGED <<chainVars, catalogVars>>
    \/ \E t \in Threads, o \in NominalOutcomes : InitProbe(t, o) /\ UNCHANGED <<chainVars, catalogVars>>
    \/ \E t \in Threads : InitStore(t) /\ UNCHANGED <<chainVars, catalogVars>>
    \/ \E t \in Threads : Check(t) /\ UNCHANGED <<chainVars, catalogVars>>
    \/ \E t \in Threads, o \in NominalOutcomes : RunProbes(t, o) /\ UNCHANGED <<chainVars, catalogVars>>
    \/ \E t \in Threads : StoreStamp(t) /\ UNCHANGED <<chainVars, catalogVars>>
    \/ \E t \in Threads : StoreHead(t) /\ UNCHANGED <<chainVars, catalogVars>>
    \/ \E t \in Threads : StoreRest(t) /\ UNCHANGED <<chainVars, catalogVars>>

SpecCacheFair ==
    InitCacheFair /\ [][NextCacheFair]_vars /\ \A t \in Threads : WF_vars(Proceed(t))

\* Overlapping refreshes of the network slot, whose probes run under no
\* lock, with time running one second past the cache duration.
InitOverlap ==
    /\ now = 0
    /\ pc = [t \in Threads |-> "idle"]
    /\ cmd = [t \in Threads |-> "none"]
    /\ SYS = "uninit"
    /\ sys_mutex = NoThread
    /\ cacheOnce = [d \in Domains |-> "uninit"]
    /\ cacheLock = [d \in Domains |-> NoThread]
    /\ cache = [d \in Domains |-> EmptySlot]
    /\ info = [t \in Threads |-> NoInfo]
    /\ returned = NoReturn
    /\ invoked = 0
    /\ invocation = <<>>
    /\ trace = <<>>
    /\ result = <<>>
    /\ players = <<>>
    /\ chosen = 0
    /\ settings_file = [kind |-> "absent"]
    /\ files = <<>>
    /\ apps = <<>>
    /\ icon_files = {}

NextOverlap ==
    \/ TickTo(NETWORK_CACHE_DURATION + 1) /\ UNCHANGED <<chainVars, catalogVars>>
    \/ \E t \in Threads : Invoke(t, "network") /\ UNCHANGED <<chainVars, catalogVars>>
    \/ \E t \in Threads : CacheOnce(t) /\ UNCHANGED <<chainVars, catalogVars>>
    \/ \E t \in Threads, o \in NominalOutcomes : InitProbe(t, o) /\ UNCHANGED <<chainVars, catalogVars>>
    \/ \E t \in Threads : InitStore(t) /\ UNCHANGED <<chainVars, catalogVars>>
    \/ \E t \in Threads : Check(t) /\ UNCHANGED <<chainVars, catalogVars>>
    \/ \E t \in Threads, o \in NominalOutcomes : RunProbes(t, o) /\ UNCHANGED <<chainVars, catalogVars>>
    \/ \E t \in Threads : StoreStamp(t) /\ UNCHANGED <<chainVars, catalogVars>>
    \/ \E t \in Threads : StoreHead(t) /\ UNCHANGED <<chainVars, catalogVars>>
    \/ \E t \in Threads : StoreRest(t) /\ UNCHANGED <<chainVars, catalogVars>>

SpecOverlap == InitOverlap /\ [][NextOverlap]_vars

\* The same commands, invoked by one caller at a time, with every answer of
\* the environment to their probes.
Callers == {1}

InitTelemetry ==
    /\ now = 0
    /\ pc = [t \in Callers |-> "idle"]
    /\ cmd = [t \in Callers |-> "none"]
    /\ SYS = "uninit"
    /\ sys_mutex = NoThread
    /\ cacheOnce = [d \in Domains |-> "uninit"]
    /\ cacheLock = [d \in Domains |-> NoThread]
    /\ cache = [d \in Domains |-> EmptySlot]
    /\ info = [t \in Callers |-> NoInfo]
    /\ returned = NoReturn
    /\ invoked = 0
    /\ invocation = <<>>
    /\ trace = <<>>
    /\ result = <<>>
    /\ players = <<>>
    /\ chosen = 0
    /\ settings_file = [kind |-> "absent"]
    /\ files = <<>>
    /\ apps = <<>>
    /\ icon_files = {}

NextTelemetry ==
    \/ Tick /\ UNCHANGED <<chainVars, catalogVars>>
    \/ \E t \in Callers, d \in Domains : Invoke(t, d) /\ UNCHANGED <<chainVars, catalogVars>>
    \/ \E t \in Callers : SysOnce(t) /\ UNCHANGED <<chainVars, catalogVars>>
    \/ \E t \in Callers : SysInit(t) /\ UNCHANGED <<chainVars, catalogVars>>
    \/ \E t \in Callers : CacheOnce(t) /\ UNCHANGED <<chainVars, catalogVars>>
    \/ \E t \in Callers, o \in Outcomes : InitProbe(t, o) /\ UNCHANGED <<chainVars, catalogVars>>
    \/ \E t \in Callers : InitStore(t) /\ UNCHANGED <<chainVars, catalogVars>>
    \/ \E t \in Callers : Check(t) /\ UNCHANGED <<chainVars, catalogVars>>
    \/ \E t \in Callers, o \in Outcomes : RunProbes(t, o) /\ UNCHANGED <<chainVars, catalogVars>>
    \/ \E t \in Callers : StoreStamp(t) /\ UNCHANGED <<chainVars, catalogVars>>
    \/ \E t \in Callers : StoreHead(t) /\ UNCHANGED <<chainVars, catalogVars>>
    \/ \E t \in Callers : StoreRest(t) /\ UNCHANGED <<chainVars, catalogVars>>

SpecTelemetry == InitTelemetry /\ [][NextTelemetry]_vars

(***************************************************************************)
(* Properties of the telemetry caches.                                     *)
(***************************************************************************)

\* C1: the snapshot handed to a caller was computed (its probes ran) no more
\* than the domain's cache duration before the moment it is returned.
C1_NeverOlderThanTTL ==
    returned.domain # "none" => returned.age <= CacheDuration(returned.domain)

\* A slot whose three parts come from one and the same store.
Whole(r) == r.head = r.rest /\ r.stamp_of = r.head

\* C2: every returned value is, in all of its fields, one snapshot that was
\* stored (never a mix of two), and whenever the slot can be read (its mutex is
\* free) its timestamp is the one written with the snapshot it holds.
C2_ReadersSeeWholeSnapshots ==
    /\ returned.domain # "none" => Whole(returned)
    /\ \A d \in Domains : cacheLock[d] = NoThread => Whole(cache[d])

\* C2 witness: a reader has been handed a stored snapshot from the cache of a
\* domain whose slot is, at this moment, half overwritten by a refresh.
C2_Witness ==
    /\ returned.path = "cached"
    /\ \E t \in Threads :
        /\ pc[t] \in {"store_head", "store_rest"}
        /\ cmd[t] = returned.domain
        /\ ~Whole(cache[cmd[t]])

\* C3: at most one caller recomputes an expired slot: no two callers of a domain
\* are both between their probes and their store, and a caller that has run the
\* probes ran them at a time the slot, as it stands, had expired.
C3_AtMostOneRecomputes ==
    /\ \A t1, t2 \in Threads :
         (t1 # t2 /\ cmd[t1] = cmd[t2] /\ cmd[t1] # "none")
            => ~(pc[t1] = "store_stamp" /\ pc[t2] \in {"store_stamp", "store_head", "store_rest"})
    /\ \A t \in Threads :
         pc[t] = "store_stamp"
            => info[t].head - cache[cmd[t]].last_refresh >= CacheDuration(cmd[t])

(***************************************************************************)
(* Part 2: the backend chains of the audio and media commands.             *)
(***************************************************************************)

\* Bound of the model: the players an MPRIS enumeration may hold.
MaxPlayers == 2

\* Result<(), String>; an error message is kept as the pieces it is formatted from.
OkUnit == [ok |-> TRUE, err |-> <<>>]
Failure(message) == [ok |-> FALSE, err |-> message]

\* format!("{}%", v)
Percent(v) == ToString(v) \o "%"

\* set_volume without the early return: the PipeWire command runs as well.
set_volume_no_early_return(volume, pactl, wpctl) ==
    LET v == Min(volume, 150)
        a == run_command("pactl", <<"set-sink-volume", "@DEFAULT_SINK@", Percent(v)>>, pactl)
        b == run_command("wpctl", <<"set-volume", "@DEFAULT_AUDIO_SINK@", Percent(v)>>, wpctl)
    IN  [trace |-> <<a, b>>,
         result |-> IF a.ok \/ b.ok THEN OkUnit ELSE Failure(<<b.err>>)]

\* set_volume(volume)
set_volume(volume, pactl, wpctl) ==
    LET v == Min(volume, 150)
        a == run_command("pactl", <<"set-sink-volume", "@DEFAULT_SINK@", Percent(v)>>, pactl)
        b == run_command("wpctl", <<"set-volume", "@DEFAULT_AUDIO_SINK@", Percent(v)>>, wpctl)
    IN  IF a.ok THEN [trace |-> <<a>>, result |-> OkUnit]
        ELSE [trace |-> <<a, b>>,
              result |-> IF b.ok THEN OkUnit ELSE Failure(<<b.err>>)]

\* toggle_mute()
toggle_mute(pactl, wpctl) ==
    LET a == run_command("pactl", <<"set-sink-mute", "@DEFAULT_SINK@", "toggle">>, pactl)
        b == run_command("wpctl", <<"set-mute", "@DEFAULT_AUDIO_SINK@", "toggle">>, wpctl)
    IN  IF a.ok THEN [trace |-> <<a>>, result |-> OkUnit]
        ELSE [trace |-> <<a, b>>,
              result |-> IF b.ok THEN OkUnit ELSE Failure(<<b.err>>)]

\* get_audio_info(): the level and mute read.  The track fields are what
\* get_player_metadata returns; it uses neither mixer tool and is run on its
\* own (GetPlayerMetadata).
get_audio_info(pactl_volume, pactl_mute, wpctl_volume) ==
    LET a == run_command("pactl", <<"get-sink-volume", "@DEFAULT_SINK@">>, pactl_volume)
        m == run_command("pactl", <<"get-sink-mute", "@DEFAULT_SINK@">>, pactl_mute)
        b == run_command("wpctl", <<"get-volume", "@DEFAULT_AUDIO_SINK@">>, wpctl_volume)
        v == parse_first_percent_value(a.stdout)
        w == parse_wpctl_volume(b.stdout)
    IN  IF a.ok
        THEN [trace |-> <<a, m>>,
              result |-> [volume |-> IF v = None THEN 50 ELSE v[1],
                          is_muted |-> m.ok /\ contains(m.stdout, <<"y", "e", "s">>)]]
        ELSE IF b.ok
        THEN [trace |-> <<a, b>>,
              result |-> IF w = None THEN [volume |-> 50, is_muted |-> FALSE] ELSE w[1]]
        ELSE [trace |-> <<a, b>>, result |-> [volume |-> 50, is_muted |-> FALSE]]

\* The pieces of media_control's error messages.
UNKNOWN_ACTION == "Unknown action"
MPRIS_FAILED == "MPRIS failed ("
PLAYERCTL_ALSO_FAILED == "); playerctl also failed ("
NO_MPRIS_PLAYER == "No MPRIS player found. Install 'playerctl' or run a MPRIS-compatible player. Details: "

\* An MPRIS call and its result, kept like an invocation.
mpris_call(method, ok, err) ==
    [cmd |-> "MPRIS", args |-> <<method>>, ok |-> ok, stdout |-> <<>>, err |-> IF ok THEN "" ELSE err]

\* "Prefer playing player": the loop over the enumeration stops at the first
\* player whose status reads Playing; before that it keeps the first player.
\* 0 stands for no player.
RECURSIVE prefer_playing(_, _, _)
prefer_playing(ps, i, kept) ==
    IF i > Len(ps) THEN kept
    ELSE IF ps[i].status = "Playing" THEN i
    ELSE prefer_playing(ps, i + 1, IF kept = 0 THEN i ELSE kept)

\* The first player enumerated, whatever is playing.
first_player(ps) == IF Len(ps) > 0 THEN 1 ELSE 0

chosen_player(ps) == prefer_playing(ps, 1, 0)

\* media_control with the fallback run whatever the MPRIS call returned.
media_control_always_fallback(action, bus, playerctl) ==
    LET method == CASE action \in {"play", "pause"} -> "play-pause"
                 [] action = "next" -> "next"
                 [] action = "previous" -> "previous"
                 [] OTHER -> ""
        new == mpris_call("PlayerFinder::new", bus.new, bus.err)
        find_all == mpris_call("find_all", bus.find_all, bus.err)
        pick == chosen_player(bus.players)
        call == mpris_call(method, bus.players[pick].call, bus.err)
        mpris == IF ~bus.new THEN <<new>>
                 ELSE IF ~bus.find_all \/ pick = 0 THEN <<new, find_all>>
                 ELSE <<new, find_all, call>>
        last == mpris[Len(mpris)]
        fallback == run_command("playerctl", <<"--player=%any", method>>, playerctl)
        found == IF bus.new /\ bus.find_all THEN bus.players ELSE <<>>
    IN  IF method = "" THEN [trace |-> <<>>, result |-> Failure(<<UNKNOWN_ACTION>>),
                              players |-> <<>>, chosen |-> 0]
        ELSE [trace |-> Append(mpris, fallback),
              result |-> IF fallback.ok \/ (Len(mpris) = 3 /\ last.ok) THEN OkUnit
                         ELSE IF Len(mpris) = 3
                         THEN Failure(<<MPRIS_FAILED, last.err, PLAYERCTL_ALSO_FAILED,
                                        fallback.err, ").">>)
                         ELSE Failure(<<NO_MPRIS_PLAYER, fallback.err>>),
              players |-> found, chosen |-> IF found = <<>> THEN 0 ELSE pick]

\* media_control(action).  bus is what D-Bus offers: whether PlayerFinder::new
\* and find_all succeed, and the players enumerated, each with the result of
\* reading its playback status and of calling a method on it.
media_control(action, bus, playerctl) ==
    LET method == CASE action \in {"play", "pause"} -> "play-pause"
                 [] action = "next" -> "next"
                 [] action = "previous" -> "previous"
                 [] OTHER -> ""
        new == mpris_call("PlayerFinder::new", bus.new, bus.err)
        find_all == mpris_call("find_all", bus.find_all, bus.err)
        pick == chosen_player(bus.players)
        call == mpris_call(method, bus.players[pick].call, bus.err)
        mpris == IF ~bus.new THEN <<new>>
                 ELSE IF ~bus.find_all \/ pick = 0 THEN <<new, find_all>>
                 ELSE <<new, find_all, call>>
        last == mpris[Len(mpris)]
        fallback == run_command("playerctl", <<"--player=%any", method>>, playerctl)
        found == IF bus.new /\ bus.find_all THEN bus.players ELSE <<>>
    IN  IF method = "" THEN [trace |-> <<>>, result |-> Failure(<<UNKNOWN_ACTION>>),
                              players |-> <<>>, chosen |-> 0]
        ELSE IF Len(mpris) = 3 /\ last.ok THEN [trace |-> mpris, result |-> OkUnit,
                                                players |-> found, chosen |-> pick]
        ELSE [trace |-> Append(mpris, fallback),
              result |-> IF fallback.ok THEN OkUnit
                         ELSE IF Len(mpris) = 3
                         THEN Failure(<<MPRIS_FAILED, last.err, PLAYERCTL_ALSO_FAILED,
                                        fallback.err, ").">>)
                         ELSE Failure(<<NO_MPRIS_PLAYER, fallback.err>>),
              players |-> found, chosen |-> IF found = <<>> THEN 0 ELSE pick]

\* str::split(pattern), for a pattern of several characters
RECURSIVE split_str(_, _)
split_str(s, pat) ==
    LET at == {i \in 1..(Len(s) - Len(pat) + 1) : SubSeq(s, i, i + Len(pat) - 1) = pat}
    IN  IF at = {} THEN <<s>>
        ELSE <<SubSeq(s, 1, MinOf(at) - 1)>>
             \o split_str(SubSeq(s, MinOf(at) + Len(pat), Len(s)), pat)

\* parts.get(n).filter(|s| !s.is_empty())
part_if_filled(parts, n) == IF n <= Len(parts) /\ parts[n] # <<>> THEN Some(parts[n]) ELSE None

\* The reading of playerctl's "{{title}}|||{{artist}}|||{{status}}" line.
playerctl_metadata(output) ==
    LET parts == split_str(trim(output), <<"|", "|", "|">>)
    IN  [title |-> part_if_filled(parts, 1),
         artist |-> part_if_filled(parts, 2),
         playing |-> Len(parts) >= 3 /\ parts[3] = <<"P", "l", "a", "y", "i", "n", "g">>]

\* get_player_metadata().  metadata is what get_metadata gives for the chosen
\* player: whether the call succeeds, and the title and first artist it holds.
\* The status of a player reads the same each time it is read.
get_player_metadata(bus, metadata, playerctl) ==
    LET new == mpris_call("PlayerFinder::new", bus.new, bus.err)
        find_all == mpris_call("find_all", bus.find_all, bus.err)
        found == IF bus.new /\ bus.find_all THEN bus.players ELSE <<>>
        pick == chosen_player(found)
        playing == pick # 0 /\ found[pick].status = "Playing"
        get_metadata == mpris_call("get_metadata", metadata.ok, bus.err)
        title == IF metadata.ok THEN metadata.title ELSE None
        artist == IF metadata.ok THEN metadata.artist ELSE None
        fallback == run_command("playerctl",
                        <<"metadata", "--player=%any", "--format", "{{title}}|||{{artist}}|||{{status}}">>,
                        playerctl)
        read == playerctl_metadata(fallback.stdout)
        mpris == IF ~bus.new THEN <<new>> ELSE <<new, find_all>>
    IN  IF pick # 0 /\ (title # None \/ artist # None)
        THEN [trace |-> Append(mpris, get_metadata), players |-> found, chosen |-> pick,
              result |-> [title |-> title, artist |-> artist, playing |-> playing]]
        ELSE IF pick # 0
        THEN [trace |-> mpris \o <<get_metadata, fallback>>, players |-> found, chosen |-> pick,
              result |-> IF fallback.ok
                         THEN [title |-> read.title, artist |-> read.artist,
                               playing |-> playing \/ read.playing]
                         ELSE [title |-> None, artist |-> None, playing |-> playing]]
        ELSE [trace |-> Append(mpris, fallback), players |-> found, chosen |-> 0,
              result |-> IF fallback.ok
                         THEN [title |-> read.title, artist |-> read.artist, playing |-> read.playing]
                         ELSE [title |-> None, artist |-> None, playing |-> FALSE]]

\* The inputs the commands are tried on.
Volumes == {0, 50, 150, 151, 200}
Actions == {"play", "pause", "next", "previous", "stop"}
NoOutput == {<<>>}
PactlVolumeOutputs ==
    {<<"f", ":", " ", "4", "2", "6", " ", "/", " ", " ", "6", "5", "%", " ", "/", " ", "7", "0", "%", "\n">>,
     <<"1", "0", "0", "%">>,
     <<"x", "%", " ", "2", "0", "0", "%">>,
     <<"9", "9", "9", "9", "9", "9", "9", "9", "9", "9", "9", "%", " ", "3", "0", "%">>,
     <<"%">>,
     <<>>}
PactlMuteOutputs == {<<"M", "u", "t", "e", ":", " ", "y", "e", "s", "\n">>, <<"M", "u", "t", "e", ":", " ", "n", "o", "\n">>}
WpctlVolumeOutputs ==
    {<<"V", "o", "l", "u", "m", "e", ":", " ", "0", ".", "5", "2", "\n">>,
     <<"V", "o", "l", "u", "m", "e", ":", " ", "0", ".", "4", "0", " ", "[", "M", "U", "T", "E", "D", "]", "\n">>,
     <<"V", "o", "l", "u", "m", "e", ":", " ", "2", ".", "0", "0">>,
     <<"V", "o", "l", "u", "m", "e", ":", " ", "-", "0", ".", "1", "0">>,
     <<"V", "o", "l", "u", "m", "e", ":">>,
     <<"n", "o", " ", "s", "i", "n", "k">>}
MprisError == "D-Bus call failed"
Statuses == {"Playing", "Paused", "Error"}
Players == [status : Statuses, call : BOOLEAN]
RECURSIVE SeqsUpTo(_, _)
SeqsUpTo(S, n) ==
    IF n = 0 THEN {<<>>}
    ELSE LET shorter == SeqsUpTo(S, n - 1)
         IN  shorter \cup {Append(s, x) : s \in {q \in shorter : Len(q) = n - 1}, x \in S}
Buses ==
    {[new |-> FALSE, find_all |-> FALSE, players |-> <<>>, err |-> MprisError]}
    \cup {[new |-> TRUE, find_all |-> FALSE, players |-> <<>>, err |-> MprisError]}
    \cup {[new |-> TRUE, find_all |-> TRUE, players |-> ps, err |-> MprisError] :
            ps \in SeqsUpTo(Players, MaxPlayers)}

\* The commands are observed one at a time: the record of a command is
\* dropped (Forget) before the next one is run.
NoCommand == invocation = <<>>

SetVolume ==
    \E volume \in Volumes, pactl \in Processes(NoOutput), wpctl \in Processes(NoOutput) :
        /\ NoCommand
        /\ invocation' = <<"set_volume", volume>>
        /\ trace' = set_volume(volume, pactl, wpctl).trace
        /\ result' = set_volume(volume, pactl, wpctl).result
        /\ players' = <<>>
        /\ chosen' = 0
        /\ UNCHANGED <<cacheVars, catalogVars, settings_file>>

ToggleMute ==
    \E pactl \in Processes(NoOutput), wpctl \in Processes(NoOutput) :
        /\ NoCommand
        /\ invocation' = <<"toggle_mute">>
        /\ trace' = toggle_mute(pactl, wpctl).trace
        /\ result' = toggle_mute(pactl, wpctl).result
        /\ players' = <<>>
        /\ chosen' = 0
        /\ UNCHANGED <<cacheVars, catalogVars, settings_file>>

GetAudioInfo ==
    \E pactl_volume \in Processes(PactlVolumeOutputs), pactl_mute \in Processes(PactlMuteOutputs),
       wpctl_volume \in Processes(WpctlVolumeOutputs) :
        /\ NoCommand
        /\ invocation' = <<"get_audio_info">>
        /\ trace' = get_audio_info(pactl_volume, pactl_mute, wpctl_volume).trace
        /\ result' = get_audio_info(pactl_volume, pactl_mute, wpctl_volume).result
        /\ players' = <<>>
        /\ chosen' = 0
        /\ UNCHANGED <<cacheVars, catalogVars, settings_file>>

MediaControl ==
    \E action \in Actions, bus \in Buses, playerctl \in Processes(NoOutput) :
        /\ NoCommand
        /\ invocation' = <<"media_control", action>>
        /\ trace' = media_control(action, bus, playerctl).trace
        /\ result' = media_control(action, bus, playerctl).result
        /\ players' = media_control(action, bus, playerctl).players
        /\ chosen' = media_control(action, bus, playerctl).chosen
        /\ UNCHANGED <<cacheVars, catalogVars, settings_file>>

Metadata ==
    {[ok |-> FALSE, title |-> None, artist |-> None]}
    \cup [ok : {TRUE}, title : {None, Some(<<"T">>)}, artist : {None, Some(<<"A">>)}]
PlayerctlMetadataOutputs ==
    {<<"T", "|", "|", "|", "A", "|", "|", "|", "P", "l", "a", "y", "i", "n", "g", "\n">>,
     <<"|", "|", "|", "A", "|", "|", "|", "P", "a", "u", "s", "e", "d", "\n">>,
     <<"T">>,
     <<"\n">>}

GetPlayerMetadata ==
    \E bus \in Buses, metadata \in Metadata, playerctl \in Processes(PlayerctlMetadataOutputs) :
        /\ NoCommand
        /\ invocation' = <<"get_player_metadata">>
        /\ trace' = get_player_metadata(bus, metadata, playerctl).trace
        /\ result' = get_player_metadata(bus, metadata, playerctl).result
        /\ players' = get_player_metadata(bus, metadata, playerctl).players
        /\ chosen' = get_player_metadata(bus, metadata, playerctl).chosen
        /\ UNCHANGED <<cacheVars, catalogVars, settings_file>>

(***************************************************************************)
(* The write commands: brightness, wallpaper, settings, system actions.    *)
(***************************************************************************)

\* str::trim_start_matches('/')
RECURSIVE trim_start_slashes(_)
trim_start_slashes(s) == IF s # <<>> /\ s[1] = "/" THEN trim_start_slashes(Tail(s)) ELSE s

HTTP == <<"h", "t", "t", "p", ":", "/", "/">>
HTTPS == <<"h", "t", "t", "p", "s", ":", "/", "/">>
FILE == <<"f", "i", "l", "e", ":", "/", "/">>

\* The URI set_wallpaper hands to gsettings.
wallpaper_uri(path) ==
    IF starts_with(path, HTTP) \/ starts_with(path, HTTPS) \/ starts_with(path, FILE)
    THEN path
    ELSE FILE \o <<"/">> \o trim_start_slashes(path)

\* DesktopSettings: the wallpaper, and the theme standing for the other fields.
DEFAULT_WALLPAPER == <<"/", "u", "s", "r", "/", "s", "h", "a", "r", "e", "/", "b", "a", "c", "k", "g", "r", "o", "u", "n", "d", "s", "/", "d", "e", "f", "a", "u", "l", "t", ".", "j", "p", "g">>
DefaultSettings == [wallpaper |-> DEFAULT_WALLPAPER, theme |-> "crystal"]

\* load_settings(): the document in the file, or the defaults when the file
\* is missing or does not parse.
load_settings(file) == IF file.kind = "document" THEN file.settings ELSE DefaultSettings

\* The file after a write that completed.
Written(settings) == [kind |-> "document", settings |-> settings]

\* A file-system call and its result, kept like an invocation.
fs_call(operation, ok) ==
    [cmd |-> "fs", args |-> <<operation>>, ok |-> ok, stdout |-> <<>>,
     err |-> IF ok THEN "" ELSE "Permission denied (os error 13)"]

\* What the file system does with one save: create_dir_all succeeds or not,
\* and fs::write then stores the document, fails before touching the file, or
\* fails after truncating it.
Saves == [create_dir_all : BOOLEAN, write : {"ok", "untouched", "truncated"}]

\* save_settings_internal(settings)
save_settings_internal(settings, file, save) ==
    LET mkdir == fs_call("create_dir_all", save.create_dir_all)
        write == fs_call("write", save.write = "ok")
    IN  IF ~save.create_dir_all
        THEN [trace |-> <<mkdir>>, result |-> Failure(<<mkdir.err>>), file |-> file]
        ELSE [trace |-> <<mkdir, write>>,
              result |-> IF write.ok THEN OkUnit ELSE Failure(<<write.err>>),
              file |-> CASE save.write = "ok" -> Written(settings)
                         [] save.write = "untouched" -> file
                         [] save.write = "truncated" -> [kind |-> "partial"]]

GSETTINGS == <<"set", "org.gnome.desktop.background">>

\* set_wallpaper with the dark-variant failure propagated.
set_wallpaper_dark_required(path, primary, dark, file, save) ==
    LET a == run_command("gsettings", GSETTINGS \o <<"picture-uri">> \o <<wallpaper_uri(path)>>, primary)
        b == run_command("gsettings", GSETTINGS \o <<"picture-uri-dark">> \o <<wallpaper_uri(path)>>, dark)
        saved == save_settings_internal([load_settings(file) EXCEPT !.wallpaper = path], file, save)
    IN  IF ~a.ok THEN [trace |-> <<a>>, result |-> Failure(<<a.err>>), file |-> file]
        ELSE IF ~b.ok THEN [trace |-> <<a, b>>, result |-> Failure(<<b.err>>), file |-> file]
        ELSE [trace |-> <<a, b>> \o saved.trace, result |-> saved.result, file |-> saved.file]

\* set_wallpaper with the settings saved before the primary result is looked at.
set_wallpaper_save_first(path, primary, dark, file, save) ==
    LET a == run_command("gsettings", GSETTINGS \o <<"picture-uri">> \o <<wallpaper_uri(path)>>, primary)
        b == run_command("gsettings", GSETTINGS \o <<"picture-uri-dark">> \o <<wallpaper_uri(path)>>, dark)
        saved == save_settings_internal([load_settings(file) EXCEPT !.wallpaper = path], file, save)
    IN  IF ~a.ok THEN [trace |-> <<a>> \o saved.trace, result |-> Failure(<<a.err>>), file |-> saved.file]
        ELSE [trace |-> <<a, b>> \o saved.trace, result |-> saved.result, file |-> saved.file]

\* set_wallpaper(path)
set_wallpaper(path, primary, dark, file, save) ==
    LET a == run_command("gsettings", GSETTINGS \o <<"picture-uri">> \o <<wallpaper_uri(path)>>, primary)
        b == run_command("gsettings", GSETTINGS \o <<"picture-uri-dark">> \o <<wallpaper_uri(path)>>, dark)
        saved == save_settings_internal([load_settings(file) EXCEPT !.wallpaper = path], file, save)
    IN  IF ~a.ok THEN [trace |-> <<a>>, result |-> Failure(<<a.err>>), file |-> file]
        ELSE [trace |-> <<a, b>> \o saved.trace, result |-> saved.result, file |-> saved.file]

\* set_brightness(brightness)
set_brightness(brightness, brightnessctl) ==
    LET a == run_command("brightnessctl", <<"set", Percent(Min(brightness, 100))>>, brightnessctl)
    IN  [trace |-> <<a>>, result |-> IF a.ok THEN OkUnit ELSE Failure(<<a.err>>)]

\* whoami::username()
USERNAME == "user"

\* system_action(action)
system_action(action, first, second) ==
    LET one(program, args) ==
            LET a == run_command(program, args, first)
            IN  [trace |-> <<a>>, result |-> IF a.ok THEN OkUnit ELSE Failure(<<a.err>>)]
    IN  CASE action = "shutdown" -> one("systemctl", <<"poweroff">>)
          [] action = "reboot" -> one("systemctl", <<"reboot">>)
          [] action = "suspend" -> one("systemctl", <<"suspend">>)
          [] action = "lock" ->
                [trace |-> <<run_command("loginctl", <<"lock-session">>, first),
                             run_command("gnome-screensaver-command", <<"-l">>, second)>>,
                 result |-> OkUnit]
          [] action = "logout" -> one("loginctl", <<"terminate-user", USERNAME>>)
          [] OTHER -> [trace |-> <<>>, result |-> Failure(<<UNKNOWN_ACTION>>)]

\* The inputs the write commands are tried on.
WallpaperPaths == {<<"/", "a">>, <<"/", "/", "a">>, <<"a">>, <<"f", "i", "l", "e", ":", "/", "/", "/", "a">>, <<"h", "t", "t", "p", ":", "/", "/", "h", "/", "a">>,
                   <<"f", "t", "p", ":", "/", "/", "h", "/", "a">>}
Brightnesses == {0, 100, 101}
SystemActions == {"shutdown", "reboot", "suspend", "lock", "logout", "hibernate"}
SettingsDocuments == [wallpaper : {<<"/", "a">>}, theme : {"crystal", "dark"}]

SetWallpaper ==
    \E path \in WallpaperPaths, primary \in Processes(NoOutput), dark \in Processes(NoOutput),
       save \in Saves :
        /\ NoCommand
        /\ invocation' = <<"set_wallpaper", path>>
        /\ trace' = set_wallpaper(path, primary, dark, settings_file, save).trace
        /\ result' = set_wallpaper(path, primary, dark, settings_file, save).result
        /\ settings_file' = set_wallpaper(path, primary, dark, settings_file, save).file
        /\ players' = <<>>
        /\ chosen' = 0
        /\ UNCHANGED <<cacheVars, catalogVars>>

SaveSettings ==
    \E settings \in SettingsDocuments, save \in Saves :
        /\ NoCommand
        /\ invocation' = <<"save_settings", settings>>
        /\ trace' = save_settings_internal(settings, settings_file, save).trace
        /\ result' = save_settings_internal(settings, settings_file, save).result
        /\ settings_file' = save_settings_internal(settings, settings_file, save).file
        /\ players' = <<>>
        /\ chosen' = 0
        /\ UNCHANGED <<cacheVars, catalogVars>>

GetSettings ==
    /\ NoCommand
    /\ invocation' = <<"get_settings">>
    /\ trace' = <<>>
    /\ result' = load_settings(settings_file)
    /\ players' = <<>>
    /\ chosen' = 0
    /\ UNCHANGED <<cacheVars, catalogVars, settings_file>>

SetBrightness ==
    \E brightness \in Brightnesses, brightnessctl \in Processes(NoOutput) :
        /\ NoCommand
        /\ invocation' = <<"set_brightness", brightness>>
        /\ trace' = set_brightness(brightness, brightnessctl).trace
        /\ result' = set_brightness(brightness, brightnessctl).result
        /\ players' = <<>>
        /\ chosen' = 0
        /\ UNCHANGED <<cacheVars, catalogVars, settings_file>>

SystemAction ==
    \E action \in SystemActions, first \in Processes(NoOutput), second \in Processes(NoOutput) :
        /\ NoCommand
        /\ invocation' = <<"system_action", action>>
        /\ trace' = system_action(action, first, second).trace
        /\ result' = system_action(action, first, second).result
        /\ players' = <<>>
        /\ chosen' = 0
        /\ UNCHANGED <<cacheVars, catalogVars, settings_file>>

Forget ==
    /\ ~NoCommand
    /\ invocation' = <<>>
    /\ trace' = <<>>
    /\ result' = <<>>
    /\ players' = <<>>
    /\ chosen' = 0
    /\ UNCHANGED <<cacheVars, catalogVars, settings_file>>

\* No command has run yet; the other parts of the program stay idle.
InitChain ==
    /\ now = 0
    /\ pc = [t \in Threads |-> "idle"]
    /\ cmd = [t \in Threads |-> "none"]
    /\ SYS = "uninit"
    /\ sys_mutex = NoThread
    /\ cacheOnce = [d \in Domains |-> "uninit"]
    /\ cacheLock = [d \in Domains |-> NoThread]
    /\ cache = [d \in Domains |-> EmptySlot]
    /\ info = [t \in Threads |-> NoInfo]
    /\ returned = NoReturn
    /\ invoked = 0
    /\ invocation = <<>>
    /\ trace = <<>>
    /\ result = <<>>
    /\ players = <<>>
    /\ chosen = 0
    /\ settings_file = [kind |-> "absent"]
    /\ files = <<>>
    /\ apps = <<>>
    /\ icon_files = {}

NextChain ==
    \/ SetVolume
    \/ ToggleMute
    \/ GetAudioInfo
    \/ MediaControl
    \/ GetPlayerMetadata
    \/ SetWallpaper
    \/ SaveSettings
    \/ GetSettings
    \/ SetBrightness
    \/ SystemAction
    \/ Forget

SpecChain == InitChain /\ [][NextChain]_vars

(***************************************************************************)
(* The settings file under a save that runs while other commands read it.  *)
(* fs::write is File::create, which opens the file and truncates it, and   *)
(* then write_all; the save is between two of its file-system calls while  *)
(* invocation names it, and trace holds the calls it has made.             *)
(***************************************************************************)

\* The documents save_settings and set_wallpaper leave in the file.
SavedDocuments == [wallpaper : WallpaperPaths, theme : {"crystal", "dark"}]

\* save_settings(settings) begins: fs::create_dir_all(&dir)
SaveCreateDir ==
    \E settings \in SavedDocuments, ok \in BOOLEAN :
        /\ NoCommand
        /\ trace' = <<fs_call("create_dir_all", ok)>>
        /\ IF ok
           THEN /\ invocation' = <<"save_settings", settings>>
                /\ result' = <<>>
           ELSE /\ invocation' = <<>>
                /\ result' = Failure(<<fs_call("create_dir_all", ok).err>>)
        /\ UNCHANGED <<cacheVars, catalogVars, players, chosen, settings_file>>

\* fs::write, first part: File::create opens settings.json and truncates it.
SaveTruncate ==
    \E ok \in BOOLEAN :
        /\ ~NoCommand
        /\ Len(trace) = 1
        /\ trace' = Append(trace, fs_call("create", ok))
        /\ IF ok
           THEN /\ settings_file' = [kind |-> "partial"]
                /\ UNCHANGED <<invocation, result>>
           ELSE /\ invocation' = <<>>
                /\ result' = Failure(<<fs_call("create", ok).err>>)
                /\ UNCHANGED settings_file
        /\ UNCHANGED <<cacheVars, catalogVars, players, chosen>>

\* fs::write, second part: write_all(json); the save returns.
SaveWriteAll ==
    \E ok \in BOOLEAN :
        /\ ~NoCommand
        /\ Len(trace) = 2
        /\ trace' = Append(trace, fs_call("write_all", ok))
        /\ invocation' = <<>>
        /\ IF ok
           THEN /\ settings_file' = Written(invocation[2])
                /\ result' = OkUnit
           ELSE /\ result' = Failure(<<fs_call("write_all", ok).err>>)
                /\ UNCHANGED settings_file
        /\ UNCHANGED <<cacheVars, catalogVars, players, chosen>>

\* get_settings() on another thread, at any moment: load_settings()
LoadSettings ==
    /\ result' = load_settings(settings_file)
    /\ UNCHANGED <<cacheVars, catalogVars, invocation, trace, players, chosen, settings_file>>

\* The program starts with a settings file written by an earlier run.
InitSettings ==
    /\ now = 0
    /\ pc = [t \in Threads |-> "idle"]
    /\ cmd = [t \in Threads |-> "none"]
    /\ SYS = "uninit"
    /\ sys_mutex = NoThread
    /\ cacheOnce = [d \in Domains |-> "uninit"]
    /\ cacheLock = [d \in Domains |-> NoThread]
    /\ cache = [d \in Domains |-> EmptySlot]
    /\ info = [t \in Threads |-> NoInfo]
    /\ returned = NoReturn
    /\ invoked = 0
    /\ invocation = <<>>
    /\ trace = <<>>
    /\ result = <<>>
    /\ players = <<>>
    /\ chosen = 0
    /\ \E settings \in SavedDocuments : settings_file = Written(settings)
    /\ files = <<>>
    /\ apps = <<>>
    /\ icon_files = {}

NextSettings ==
    \/ SaveCreateDir
    \/ SaveTruncate
    \/ SaveWriteAll
    \/ LoadSettings

SpecSettings == InitSettings /\ [][NextSettings]_vars

(***************************************************************************)
(* Properties of the backend chains.                                       *)
(***************************************************************************)

AudioOperations == {"set_volume", "toggle_mute", "get_audio_info"}
Invocations(program) == {i \in 1..Len(trace) : trace[i].cmd = program}

\* What get_audio_info reports when the level comes from wpctl's output b.
LevelFromWpctl(b) ==
    IF parse_wpctl_volume(b) = None THEN [volume |-> 50, is_muted |-> FALSE]
    ELSE parse_wpctl_volume(b)[1]

\* C4: in the chains [pactl, wpctl] of set_volume, toggle_mute and the level
\* read of get_audio_info, pactl is tried first; when it succeeds wpctl is
\* never invoked; when it fails wpctl is invoked exactly once, and if wpctl
\* then succeeds the operation's result is that success (Ok for the writes,
\* the level read from wpctl's output for the read).
C4_SecondBackendOnlyAfterFailure ==
    (invocation # <<>> /\ invocation[1] \in AudioOperations) =>
        /\ trace # <<>> /\ trace[1].cmd = "pactl"
        /\ trace[1].ok => Invocations("wpctl") = {}
        /\ ~trace[1].ok =>
              /\ Cardinality(Invocations("wpctl")) = 1
              /\ \A i \in Invocations("wpctl") :
                    trace[i].ok =>
                        IF invocation[1] = "get_audio_info"
                        THEN result = LevelFromWpctl(trace[i].stdout)
                        ELSE result = OkUnit

\* pactl failed and wpctl then succeeded, for a write and for the read.
C4_Witness ==
    /\ invocation # <<>> /\ invocation[1] \in {"set_volume", "get_audio_info"}
    /\ Len(trace) = 2
    /\ trace[1].cmd = "pactl" /\ ~trace[1].ok
    /\ trace[2].cmd = "wpctl" /\ trace[2].ok
    /\ invocation[1] = "set_volume" => result.ok
    /\ invocation[1] = "get_audio_info" => result.volume = 52

\* The backend-and-reason pairs an error message states: a piece that names
\* a backend, followed by the reason put after it.
Stated(message) ==
    {<<"MPRIS", message[i + 1]>> : i \in {j \in 1..(Len(message) - 1) : message[j] = MPRIS_FAILED}}
    \cup {<<"playerctl", message[i + 1]>> :
            i \in {j \in 1..(Len(message) - 1) :
                      message[j] \in {PLAYERCTL_ALSO_FAILED, NO_MPRIS_PLAYER}}}

\* The backend-and-reason pairs of the attempts that failed.
Failed(attempts) ==
    {<<attempts[i].cmd, attempts[i].err>> : i \in {j \in 1..Len(attempts) : ~attempts[j].ok}}

ChainOperations == {"set_volume", "toggle_mute", "media_control"}

\* C5: when every backend of a chain has failed (set_volume, toggle_mute:
\* pactl then wpctl; media_control: MPRIS then playerctl), the error returned
\* names every backend that was attempted, each with its failure reason.
C5_ErrorNamesEveryBackend ==
    (/\ invocation # <<>> /\ invocation[1] \in ChainOperations
     /\ trace # <<>>
     /\ ~result.ok)
        => Failed(trace) \subseteq Stated(result.err)

(***************************************************************************)
(* Part 3: the catalogue of installed applications.                        *)
(***************************************************************************)

\* Bound of the model: the desktop files found by one scan.
MaxFiles == 3

\* What freedesktop_entry_parser makes of one .desktop file: parse_entry
\* fails, or the "Desktop Entry" section has or lacks each key.  Name and
\* Exec values are character sequences.
Contents ==
    {[parsed |-> TRUE, Name |-> Some(<<"A", "b", "c">>), Exec |-> Some(<<"a", "b", "c", " ", "-", "r">>), NoDisplay |-> None, Hidden |-> None,
      Categories |-> Some(<<";", ";", "a", ";", ";", "b">>)],
     [parsed |-> TRUE, Name |-> Some(<<"a", "b", "c">>), Exec |-> Some(<<"a", "b", "c">>), NoDisplay |-> None, Hidden |-> None,
      Categories |-> Some(<<>>)],
     [parsed |-> TRUE, Name |-> Some(<<"Z", "e", "d">>), Exec |-> Some(<<"z", "e", "d", " ", "-", "-", "f", "l", "a", "g", " ", "%", "F">>), NoDisplay |-> None, Hidden |-> None,
      Categories |-> Some(<<"D", "e", "v", "e", "l", "o", "p", "m", "e", "n", "t", ";", "U", "t", "i", "l", "i", "t", "y", ";">>)],
     [parsed |-> TRUE, Name |-> Some(<<"A", "b", "c">>), Exec |-> Some(<<"a", "b", "c">>), NoDisplay |-> Some("true"), Hidden |-> None,
      Categories |-> None],
     [parsed |-> TRUE, Name |-> Some(<<"a", "b", "c">>), Exec |-> Some(<<"a", "b", "c">>), NoDisplay |-> Some("false"), Hidden |-> Some("true"),
      Categories |-> None],
     [parsed |-> TRUE, Name |-> Some(<<"Z", "e", "d">>), Exec |-> Some(<<"z", "e", "d">>), NoDisplay |-> Some("True"), Hidden |-> None,
      Categories |-> None],
     [parsed |-> TRUE, Name |-> None, Exec |-> Some(<<"z", "e", "d">>), NoDisplay |-> None, Hidden |-> None,
      Categories |-> None],
     [parsed |-> TRUE, Name |-> Some(<<"Z", "e", "d">>), Exec |-> None, NoDisplay |-> None, Hidden |-> None,
      Categories |-> None],
     [parsed |-> TRUE, Name |-> Some(<<"a", "b", "c">>), Exec |-> Some(<<>>), NoDisplay |-> None, Hidden |-> None,
      Categories |-> None],
     [parsed |-> FALSE, Name |-> None, Exec |-> None, NoDisplay |-> None, Hidden |-> None,
      Categories |-> None]}

\* The files one scan meets, in scan order (app_dirs in order, WalkDir within
\* a directory).  dir is the rank of the file's directory among the scanned
\* directories that hold desktop files; stem is the file stem, taken to be
\* valid UTF-8 and to tell the files apart.
File(content, dir, stem) ==
    [dir |-> dir, stem |-> stem, parsed |-> content.parsed, Name |-> content.Name,
     Exec |-> content.Exec, NoDisplay |-> content.NoDisplay, Hidden |-> content.Hidden,
     Categories |-> content.Categories]
DirRanks(n) ==
    {d \in [1..n -> 1..n] :
        /\ n > 0 => d[1] = 1
        /\ \A i \in 1..(n - 1) : d[i + 1] \in {d[i], d[i] + 1}}
Scan(contents, ranks) ==
    [i \in 1..Len(contents) |-> File(contents[i], ranks[i], ToString(i))]

\* The exclusion test with the Hidden key left out.
excluded_by_no_display_only(file) == unwrap_or(file.NoDisplay, "false") = "true"

\* no_display == "true" || hidden == "true"
excluded(file) ==
    unwrap_or(file.NoDisplay, "false") = "true" \/ unwrap_or(file.Hidden, "false") = "true"

\* e.split_whitespace().next().unwrap_or(e)
exec_of(e) == unwrap_or(first_token(e), e)

is_empty(s) == s = <<>>
not_empty(s) == ~is_empty(s)

\* c.split(';').filter(|s| !s.is_empty()).collect()
categories_of(c) == SelectSeq(split(c, ";"), not_empty)

\* parse_desktop_file(path), without the icon and the description.
parse_desktop_file(file) ==
    IF ~file.parsed THEN None
    ELSE IF excluded(file) THEN None
    ELSE IF file.Name = None THEN None
    ELSE IF file.Exec = None THEN None
    ELSE Some([id |-> file.stem, name |-> file.Name[1], exec |-> exec_of(file.Exec[1]),
               categories |-> IF file.Categories = None THEN <<>>
                              ELSE categories_of(file.Categories[1])])

\* Position of a letter in byte order: upper case before lower case.
Byte(c) == CHOOSE i \in 1..52 : (UpperChars \o LowerChars)[i] = c

\* str::cmp: lexicographic by bytes.
RECURSIVE cmp(_, _)
cmp(a, b) ==
    IF a = <<>> /\ b = <<>> THEN "Equal"
    ELSE IF a = <<>> THEN "Less"
    ELSE IF b = <<>> THEN "Greater"
    ELSE IF Byte(a[1]) < Byte(b[1]) THEN "Less"
    ELSE IF Byte(a[1]) > Byte(b[1]) THEN "Greater"
    ELSE cmp(Tail(a), Tail(b))

\* Ordering by the name as written.
sort_key_case_sensitive(app) == app.name

\* The key of the comparison closure: a.name.to_lowercase()
sort_key(app) == to_lowercase(app.name)

\* Vec::sort_by with that closure: a stable sort.
RECURSIVE sort_by(_)
sort_by(v) ==
    IF v = <<>> THEN <<>>
    ELSE LET x == v[Len(v)]
             s == sort_by(SubSeq(v, 1, Len(v) - 1))
             k == Cardinality({i \in 1..Len(s) : cmp(sort_key(s[i]), sort_key(x)) # "Greater"})
         IN  SubSeq(s, 1, k) \o <<x>> \o SubSeq(s, k + 1, Len(s))

\* Vec::dedup_by(|a, b| a.name == b.name): of consecutive entries with the
\* same name the first is kept.
RECURSIVE dedup_by(_)
dedup_by(v) ==
    IF Len(v) <= 1 THEN v
    ELSE LET d == dedup_by(SubSeq(v, 1, Len(v) - 1))
             x == v[Len(v)]
         IN  IF x.name = d[Len(d)].name THEN d ELSE Append(d, x)

\* The entries pushed while scanning.
RECURSIVE collect(_)
collect(fs) ==
    IF fs = <<>> THEN <<>>
    ELSE LET app == parse_desktop_file(fs[Len(fs)])
         IN  collect(SubSeq(fs, 1, Len(fs) - 1)) \o app

\* get_installed_apps()
get_installed_apps(fs) == dedup_by(sort_by(collect(fs)))

GetInstalledApps ==
    /\ invocation' = <<"get_installed_apps">>
    /\ apps' = get_installed_apps(files)
    /\ UNCHANGED <<cacheVars, trace, result, players, chosen, settings_file, files, icon_files>>

\* Some set of desktop files is installed; nothing has been listed yet.
InitCatalog ==
    /\ now = 0
    /\ pc = [t \in Threads |-> "idle"]
    /\ cmd = [t \in Threads |-> "none"]
    /\ SYS = "uninit"
    /\ sys_mutex = NoThread
    /\ cacheOnce = [d \in Domains |-> "uninit"]
    /\ cacheLock = [d \in Domains |-> NoThread]
    /\ cache = [d \in Domains |-> EmptySlot]
    /\ info = [t \in Threads |-> NoInfo]
    /\ returned = NoReturn
    /\ invoked = 0
    /\ invocation = <<>>
    /\ trace = <<>>
    /\ result = <<>>
    /\ players = <<>>
    /\ chosen = 0
    /\ settings_file = [kind |-> "absent"]
    /\ \E contents \in SeqsUpTo(Contents, MaxFiles) :
          \E ranks \in DirRanks(Len(contents)) : files = Scan(contents, ranks)
    /\ apps = <<>>
    /\ icon_files = {}

NextCatalog == GetInstalledApps

SpecCatalog == InitCatalog /\ [][NextCatalog]_vars

(***************************************************************************)
(* Properties of the catalogue.                                            *)
(***************************************************************************)

Listed == invocation = <<"get_installed_apps">>
Accepted == {i \in 1..Len(files) : parse_desktop_file(files[i]) # None}
Entries(name) == {k \in 1..Len(apps) : apps[k].name = name}

\* C6: the list returned by get_installed_apps contains no two entries
\* sharing a name.
C6_NoTwoEntriesShareAName ==
    Listed => \A i, j \in 1..Len(apps) : i # j => apps[i].name # apps[j].name

\* C7: the returned list is ordered by case-insensitive name: of two adjacent
\* entries the lower-cased name of the earlier one is less than or equal to
\* that of the later one, also after duplicates have been removed.
C7_OrderedByLowerCasedName ==
    Listed => \A i \in 1..(Len(apps) - 1) :
                 cmp(to_lowercase(apps[i].name), to_lowercase(apps[i + 1].name)) # "Greater"

\* "Zed" was scanned before "abc" and is listed after it, and a duplicate
\* has been removed.
C7_Witness ==
    /\ Listed
    /\ Len(apps) < Cardinality(Accepted)
    /\ \E i, j \in Accepted : i < j /\ files[i].Name[1] = <<"Z", "e", "d">>
                                    /\ files[j].Name[1] = <<"a", "b", "c">>
    /\ \E i \in 1..(Len(apps) - 1) : apps[i].name = <<"a", "b", "c">>
                                     /\ apps[i + 1].name = <<"Z", "e", "d">>

\* C8: when accepted desktop files in different directories declare the same
\* name, exactly one entry with that name is returned, and it comes from the
\* first of those files in scan order.
C8_FirstDirectoryWins ==
    Listed => \A i, j \in Accepted :
                 (files[i].dir < files[j].dir /\ files[i].Name = files[j].Name) =>
                     /\ Cardinality(Entries(files[i].Name[1])) = 1
                     /\ \A k \in Entries(files[i].Name[1]) :
                           apps[k].id = files[MinOf({m \in Accepted : files[m].Name = files[i].Name})].stem

\* C9: no entry of a file with NoDisplay=true or Hidden=true (the literal
\* "true") is listed, whatever its other fields; a file with neither flag
\* set to "true" that has a Name and an Exec key has its name listed.
C9_FlaggedEntriesExcluded ==
    Listed =>
        \A i \in 1..Len(files) :
            /\ (files[i].NoDisplay = Some("true") \/ files[i].Hidden = Some("true"))
                  => \A k \in 1..Len(apps) : apps[k].id # files[i].stem
            /\ (/\ files[i].parsed
                /\ files[i].NoDisplay # Some("true") /\ files[i].Hidden # Some("true")
                /\ files[i].Name # None /\ files[i].Exec # None)
                  => Entries(files[i].Name[1]) # {}

\* A file flagged Hidden=true (and NoDisplay=false) is left out while a file
\* flagged NoDisplay=True is listed.
C9_Witness ==
    /\ Listed
    /\ \E i \in 1..Len(files) :
          /\ files[i].Hidden = Some("true") /\ files[i].NoDisplay = Some("false")
          /\ \A k \in 1..Len(apps) : apps[k].id # files[i].stem
    /\ \E i \in 1..Len(files) :
          /\ files[i].NoDisplay = Some("True")
          /\ \E k \in 1..Len(apps) : apps[k].id = files[i].stem

\* A file is well formed when it parses and has a display name and a launch
\* command.
HasLaunchCommand(e) == first_token(e) # None
WellFormed(file) ==
    /\ file.parsed
    /\ file.Name # None
    /\ file.Exec # None /\ HasLaunchCommand(file.Exec[1])

\* C10: a desktop file that cannot be parsed, or lacks a display name or a
\* launch command, contributes no entry; the well-formed files that are not
\* flagged away still have their names listed; and every returned entry
\* carries a launch command.
C10_IncompleteFilesSkipped ==
    Listed =>
        /\ \A i \in 1..Len(files) :
              ~WellFormed(files[i]) => \A k \in 1..Len(apps) : apps[k].id # files[i].stem
        /\ \A i \in 1..Len(files) :
              (WellFormed(files[i]) /\ ~excluded(files[i])) => Entries(files[i].Name[1]) # {}
        /\ \A k \in 1..Len(apps) : HasLaunchCommand(apps[k].exec)

\* The file an entry was made from.
FileOf(app) == files[CHOOSE i \in 1..Len(files) : files[i].stem = app.id]

RECURSIVE Flatten(_)
Flatten(ss) == IF ss = <<>> THEN <<>> ELSE ss[1] \o Flatten(Tail(ss))
NotSemicolon(c) == c # ";"
\* The non-empty segments of a value: the positions where one starts.
SegmentStarts(v) == {i \in 1..Len(v) : v[i] # ";" /\ (i = 1 \/ v[i - 1] = ";")}

\* C11: for every accepted desktop entry the produced exec is the first
\* whitespace-delimited token of the Exec value, and the produced categories
\* are the non-empty segments of the Categories value split on ';', in their
\* original order (none when the key is absent).
C11_ExecTokenAndCategories ==
    Listed => \A k \in 1..Len(apps) :
        LET f == FileOf(apps[k])
            v == unwrap_or(f.Categories, <<>>)
        IN  /\ first_token(f.Exec[1]) = Some(apps[k].exec)
            /\ \A c \in 1..Len(apps[k].exec) : ~is_whitespace(apps[k].exec[c])
            /\ Len(apps[k].categories) = Cardinality(SegmentStarts(v))
            /\ \A c \in 1..Len(apps[k].categories) :
                  /\ apps[k].categories[c] # <<>>
                  /\ \A x \in 1..Len(apps[k].categories[c]) : apps[k].categories[c][x] # ";"
            /\ Flatten(apps[k].categories) = SelectSeq(v, NotSemicolon)

\* C12: for every requested volume v, set_volume sends min(v, 150) percent to
\* each backend it invokes, the same value to pactl and, on fallback, to
\* wpctl; 200 is sent as 150 and 0 is sent as 0.
C12_VolumeClampedBeforeSending ==
    (invocation # <<>> /\ invocation[1] = "set_volume") =>
        \A i \in 1..Len(trace) :
            /\ trace[i].args[3] = (IF invocation[2] > 150 THEN "150%" ELSE ToString(invocation[2]) \o "%")
            /\ invocation[2] = 200 => trace[i].args[3] = "150%"
            /\ invocation[2] = 0 => trace[i].args[3] = "0%"

\* A request of 200 reached both backends.
C12_Witness ==
    /\ invocation = <<"set_volume", 200>>
    /\ Len(trace) = 2
    /\ trace[1].cmd = "pactl" /\ trace[1].args[3] = "150%"
    /\ trace[2].cmd = "wpctl" /\ trace[2].args[3] = "150%"

\* C13: for every output and outcome of the two mixer tools, the volume
\* reported by get_audio_info lies in 0..150, whichever backend supplied it.
C13_ReportedVolumeInRange ==
    (invocation # <<>> /\ invocation[1] = "get_audio_info") => result.volume \in 0..150

(***************************************************************************)
(* Part 4: the icon resolver.  A path is the sequence of directories it    *)
(* lies under and its file name; a path given as one absolute string has   *)
(* no directories and that string as its name.  The home directory is      *)
(* taken to be known.                                                      *)
(***************************************************************************)

\* Bound of the model: the icon files that exist at once.
MaxIconFiles == 2

\* str::ends_with
ends_with(s, suffix) ==
    Len(s) >= Len(suffix) /\ SubSeq(s, Len(s) - Len(suffix) + 1, Len(s)) = suffix

\* Path::is_absolute
is_absolute(name) == name # <<>> /\ name[1] = "/"

\* PathBuf::join: joining an absolute path replaces what it is joined to.
join(dirs, name) ==
    IF is_absolute(name) THEN [dir |-> <<>>, name |-> name] ELSE [dir |-> dirs, name |-> name]

PNG == <<".", "p", "n", "g">>
SVG == <<".", "s", "v", "g">>
XPM == <<".", "x", "p", "m">>

\* has_ext
has_ext(icon) ==
    \/ ends_with(to_lowercase(icon), PNG)
    \/ ends_with(to_lowercase(icon), SVG)
    \/ ends_with(to_lowercase(icon), XPM)

\* filenames
filenames(icon) == IF has_ext(icon) THEN <<icon>> ELSE <<icon \o SVG, icon \o PNG, icon \o XPM>>

\* The names tried in a pixmap directory: format!("{icon}.{ext}") for ext in
\* ["png", "svg", "xpm"].
pixmap_names(icon) == <<icon \o PNG, icon \o SVG, icon \o XPM>>

pixmap_roots ==
    <<"/usr/share/pixmaps",
      "/usr/local/share/pixmaps",
      "/var/lib/flatpak/exports/share/pixmaps",
      "/run/host/usr/share/pixmaps",
      "/run/host/usr/local/share/pixmaps",
      "/run/host/var/lib/flatpak/exports/share/pixmaps",
      "~/.local/share/flatpak/exports/share/pixmaps">>

roots ==
    <<"~/.local/share/icons",
      "/usr/share/icons",
      "/usr/local/share/icons",
      "/var/lib/flatpak/exports/share/icons",
      "/run/host/usr/share/icons",
      "/run/host/usr/local/share/icons",
      "/run/host/var/lib/flatpak/exports/share/icons",
      "~/.local/share/flatpak/exports/share/icons">>

themes == <<"hicolor", "Adwaita">>

\* The size buckets from the smallest up.
sizes_ascending ==
    <<"16x16", "24x24", "32x32", "48x48", "64x64", "96x96", "128x128", "192x192",
      "256x256", "512x512", "scalable">>

sizes ==
    <<"scalable", "512x512", "256x256", "192x192", "128x128", "96x96", "64x64", "48x48",
      "32x32", "24x24", "16x16">>

contexts == <<"apps", "applications", "places", "categories", "mimetypes", "status", "actions">>

\* The turns of the loop over the pixmap directories, in order, each with the
\* path it tests.
pixmap_turns(icon) ==
    {[root |-> r, name |-> n, path |-> join(<<pixmap_roots[r]>>, pixmap_names(icon)[n])] :
        r \in 1..Len(pixmap_roots), n \in 1..Len(pixmap_names(icon))}
PixmapBefore(a, b) == a.root < b.root \/ (a.root = b.root /\ a.name < b.name)

\* Where x occurs in a sequence.
At(seq, x) == {i \in 1..Len(seq) : seq[i] = x}

\* The turns of the loops over the theme trees (root, theme, size, context,
\* file name, outermost first) that test the existing file f: those whose
\* join of directories and file name is f.
turns_testing(icon, f) ==
    IF f.dir = <<>>
    THEN {[root |-> r, theme |-> t, size |-> s, ctx |-> c, name |-> n, path |-> f] :
             r \in 1..Len(roots), t \in 1..Len(themes), s \in 1..Len(sizes), c \in 1..Len(contexts),
             n \in {k \in At(filenames(icon), f.name) : is_absolute(f.name)}}
    ELSE IF Len(f.dir) = 4
    THEN {[root |-> r, theme |-> t, size |-> s, ctx |-> c, name |-> n, path |-> f] :
             r \in At(roots, f.dir[1]), t \in At(themes, f.dir[2]), s \in At(sizes, f.dir[3]),
             c \in At(contexts, f.dir[4]),
             n \in {k \in At(filenames(icon), f.name) : ~is_absolute(f.name)}}
    ELSE {}

\* The turns of those loops whose path exists and is a file.
theme_hits(icon, fs) == UNION {turns_testing(icon, f) : f \in fs}
TurnOrder(h) == <<h.root, h.theme, h.size, h.ctx, h.name>>
RECURSIVE LexLess(_, _)
LexLess(a, b) ==
    IF a = <<>> THEN FALSE
    ELSE a[1] < b[1] \/ (a[1] = b[1] /\ LexLess(Tail(a), Tail(b)))

\* resolve_icon_path(icon) on the existing files fs: each loop returns at its
\* first turn whose path exists, which is the earliest such turn.
resolve_icon_path(icon_in, fs) ==
    LET icon == trim(icon_in)
        pixmap_hits == {h \in pixmap_turns(icon) : h.path \in fs}
        hits == theme_hits(icon, fs)
    IN  IF icon = <<>> THEN None
        ELSE IF is_absolute(icon) /\ join(<<>>, icon) \in fs THEN Some(join(<<>>, icon))
        ELSE IF pixmap_hits # {}
        THEN Some((CHOOSE h \in pixmap_hits :
                      \A g \in pixmap_hits : g = h \/ PixmapBefore(h, g)).path)
        ELSE IF hits # {}
        THEN Some((CHOOSE h \in hits :
                      \A g \in hits : g = h \/ LexLess(TurnOrder(h), TurnOrder(g))).path)
        ELSE None

\* The inputs the resolver is tried on.
Icons == {<<"f">>, <<"f", ".", "p", "n", "g">>, <<"f", ".", "S", "V", "G">>, <<" ", "f", " ">>, <<" ">>, <<"/", "o", "/", "f", ".", "p", "n", "g">>}
IconFileNames == {<<"f">> \o PNG, <<"f">> \o SVG, <<"f", ".", "S", "V", "G">>}
IconUniverse ==
    {join(<<pixmap_roots[r]>>, n) : r \in {1, 2}, n \in IconFileNames \cup {<<"f">> \o PNG \o PNG}}
    \cup {join(<<roots[r], themes[t], s, "apps">>, n) :
            r \in {1, 2}, t \in {1, 2}, s \in {"scalable", "16x16"}, n \in {<<"f">> \o PNG, <<"f">> \o SVG}}
    \cup {join(<<roots[1], "hicolor", "512x512", "actions">>, <<"f">> \o PNG),
          join(<<roots[2], "Adwaita", "scalable", "apps">>, <<"f", ".", "S", "V", "G">>),
          join(<<>>, <<"/", "o", "/", "f", ".", "p", "n", "g">>)}
RECURSIVE SetsUpTo(_, _)
SetsUpTo(U, n) ==
    IF n = 0 THEN {{}}
    ELSE {s \cup add : s \in SetsUpTo(U, n - 1), add \in {{}} \cup {{x} : x \in U}}

ResolveIconPath ==
    \E icon \in Icons :
        /\ invocation' = <<"resolve_icon_path", icon>>
        /\ result' = resolve_icon_path(icon, icon_files)
        /\ UNCHANGED <<cacheVars, trace, players, chosen, settings_file, files, apps, icon_files>>

\* Some icon files exist; nothing has been resolved yet.
InitIcon ==
    /\ now = 0
    /\ pc = [t \in Threads |-> "idle"]
    /\ cmd = [t \in Threads |-> "none"]
    /\ SYS = "uninit"
    /\ sys_mutex = NoThread
    /\ cacheOnce = [d \in Domains |-> "uninit"]
    /\ cacheLock = [d \in Domains |-> NoThread]
    /\ cache = [d \in Domains |-> EmptySlot]
    /\ info = [t \in Threads |-> NoInfo]
    /\ returned = NoReturn
    /\ invoked = 0
    /\ invocation = <<>>
    /\ trace = <<>>
    /\ result = <<>>
    /\ players = <<>>
    /\ chosen = 0
    /\ settings_file = [kind |-> "absent"]
    /\ files = <<>>
    /\ apps = <<>>
    /\ icon_files \in SetsUpTo(IconUniverse, MaxIconFiles)

NextIcon == ResolveIconPath

SpecIcon == InitIcon /\ [][NextIcon]_vars

(***************************************************************************)
(* Properties of the icon resolver.                                        *)
(***************************************************************************)

Range(seq) == {seq[i] : i \in 1..Len(seq)}
Resolved == invocation # <<>> /\ invocation[1] = "resolve_icon_path"
\* The icon asked for, when it is a name to search for: not blank, and not an
\* absolute path of an existing file.
Asked == trim(invocation[2])
Searched == Resolved /\ Asked # <<>> /\ ~(is_absolute(Asked) /\ join(<<>>, Asked) \in icon_files)
\* The existing files that match the icon: a candidate file name directly in
\* a pixmap directory, or in a root/theme/size/context directory.
PixmapMatches ==
    {f \in icon_files : /\ Len(f.dir) = 1 /\ f.dir[1] \in Range(pixmap_roots)
                        /\ f.name \in Range(filenames(Asked))}
ThemeMatches ==
    {f \in icon_files : /\ Len(f.dir) = 4
                        /\ f.dir[1] \in Range(roots) /\ f.dir[2] \in Range(themes)
                        /\ f.dir[3] \in Range(sizes) /\ f.dir[4] \in Range(contexts)
                        /\ f.name \in Range(filenames(Asked))}

\* C14: for an icon name that is not an existing absolute file path, whenever
\* a matching file exists both in a pixmap directory and in an icon-theme
\* tree the pixmap file is returned; a theme file is returned only when no
\* pixmap directory has a match.
C14_PixmapsBeforeThemes ==
    Searched =>
        /\ (PixmapMatches # {} /\ ThemeMatches # {}) => (result # None /\ result[1] \in PixmapMatches)
        /\ (result # None /\ result[1] \in ThemeMatches) => PixmapMatches = {}

\* Edge length of a size bucket; scalable counts as the largest.
Pixels(size) ==
    CASE size = "scalable" -> 1024
      [] size = "512x512" -> 512
      [] size = "256x256" -> 256
      [] size = "192x192" -> 192
      [] size = "128x128" -> 128
      [] size = "96x96" -> 96
      [] size = "64x64" -> 64
      [] size = "48x48" -> 48
      [] size = "32x32" -> 32
      [] size = "24x24" -> 24
      [] size = "16x16" -> 16
FromThemes == Searched /\ result # None /\ result[1] \in ThemeMatches
RootRank(f) == CHOOSE i \in 1..Len(roots) : roots[i] = f.dir[1]
IsHicolor(f) == f.dir[2] = "hicolor"

\* C15 as stated: when matching icon files exist in the theme trees at
\* several size buckets, the file returned lies in the largest of those
\* buckets (scalable first, then 512x512 down to 16x16).
C15_LargestBucketWins ==
    FromThemes => \A f \in ThemeMatches : Pixels(result[1].dir[3]) >= Pixels(f.dir[3])

\* C15, amended: the theme file returned lies in the earliest icon root that
\* has a match, within that root in hicolor before Adwaita, and within that
\* root and theme in the largest size bucket that has a match.
C15_LargestBucketWinsWithinRootAndTheme ==
    FromThemes =>
        \A f \in ThemeMatches :
            /\ RootRank(result[1]) <= RootRank(f)
            /\ (f.dir[1] = result[1].dir[1] /\ IsHicolor(f)) => IsHicolor(result[1])
            /\ (f.dir[1] = result[1].dir[1] /\ f.dir[2] = result[1].dir[2])
                  => Pixels(result[1].dir[3]) >= Pixels(f.dir[3])

\* A scalable file was returned although a 16x16 match lies in the same root
\* and theme.
C15_Witness ==
    /\ FromThemes
    /\ result[1].dir[3] = "scalable"
    /\ \E f \in ThemeMatches : /\ f.dir[1] = result[1].dir[1] /\ f.dir[2] = result[1].dir[2]
                               /\ f.dir[3] = "16x16"

\* C16: when the icon already ends in .png, .svg or .xpm and is not itself an
\* existing absolute file, and a file with exactly that name exists in a
\* pixmap directory, that file is returned.
C16_LiteralNameFoundInPixmaps ==
    (Searched /\ has_ext(Asked)) =>
        \A r \in 1..Len(pixmap_roots) :
            join(<<pixmap_roots[r]>>, Asked) \in icon_files
                => (/\ result # None
                    /\ Len(result[1].dir) = 1 /\ result[1].dir[1] \in Range(pixmap_roots)
                    /\ result[1].name = Asked)

\* C17: the player chosen by media_control and by get_player_metadata is the
\* first enumerated player whose playback status is Playing; if none is
\* Playing it is the first player enumerated; no player is chosen only when
\* the enumeration is empty.
C17_PreferPlayingPlayer ==
    (invocation # <<>> /\ invocation[1] \in {"media_control", "get_player_metadata"}) =>
        /\ chosen \in 0..Len(players)
        /\ chosen = 0 <=> players = <<>>
        /\ \A i \in 1..Len(players) :
              players[i].status = "Playing" =>
                  /\ players[chosen].status = "Playing"
                  /\ chosen <= i
        /\ (players # <<>> /\ \A i \in 1..Len(players) : players[i].status # "Playing") => chosen = 1

\* The second player was chosen because it alone is Playing (the status of
\* the first cannot be read), and in another run the first of two players
\* that are not Playing.
C17_Witness ==
    /\ invocation # <<>> /\ invocation[1] \in {"media_control", "get_player_metadata"}
    /\ Len(players) = 2
    /\ \/ players[1].status = "Error" /\ players[2].status = "Playing" /\ chosen = 2
       \/ players[1].status = "Paused" /\ players[2].status = "Paused" /\ chosen = 1

(***************************************************************************)
(* Properties of the write commands.                                       *)
(***************************************************************************)

\* The file-system calls of the command, and the external commands it ran.
FileCalls == {i \in 1..Len(trace) : trace[i].cmd = "fs"}
ExternalCommands == {i \in 1..Len(trace) : trace[i].cmd # "fs"}

\* C18: set_wallpaper returns an error whenever the primary picture-uri
\* assignment fails, and the outcome of the picture-uri-dark assignment never
\* changes the result: with a successful primary the dark assignment is
\* attempted, the settings are saved, and the result is that of the save
\* alone, whether the dark assignment succeeded or failed.
C18_PrimaryHardDarkBestEffort ==
    (invocation # <<>> /\ invocation[1] = "set_wallpaper") =>
        /\ trace # <<>>
        /\ trace[1].cmd = "gsettings" /\ trace[1].args[3] = "picture-uri"
        /\ ~trace[1].ok =>
              /\ Len(trace) = 1
              /\ ~result.ok /\ result.err = <<trace[1].err>>
        /\ trace[1].ok =>
              /\ Len(trace) >= 3
              /\ trace[2].cmd = "gsettings" /\ trace[2].args[3] = "picture-uri-dark"
              /\ trace[2].args[4] = trace[1].args[4]
              /\ FileCalls = 3..Len(trace)
              /\ result.ok <=> \A i \in FileCalls : trace[i].ok
              /\ result.ok =>
                    /\ settings_file.kind = "document"
                    /\ settings_file.settings.wallpaper = invocation[2]

\* The dark assignment failed after a successful primary, and the wallpaper
\* was saved and reported as set.
C18_Witness ==
    /\ invocation # <<>> /\ invocation[1] = "set_wallpaper"
    /\ Len(trace) = 4
    /\ trace[1].ok /\ ~trace[2].ok
    /\ result.ok
    /\ settings_file.kind = "document"
    /\ settings_file.settings.wallpaper = invocation[2]

WriteOperations == {"set_volume", "toggle_mute", "set_brightness", "set_wallpaper", "system_action"}

\* C19: a write operation (set_volume, toggle_mute, set_brightness,
\* set_wallpaper, every action of system_action) whose external commands all
\* failed returns an error rather than Ok.
C19_WritesPropagateFailure ==
    (/\ invocation # <<>> /\ invocation[1] \in WriteOperations
     /\ ExternalCommands # {}
     /\ \A i \in ExternalCommands : ~trace[i].ok)
        => ~result.ok

(***************************************************************************)
(* Properties of the telemetry commands under failing probes.              *)
(***************************************************************************)

\* nmcli failed, or its output has no line of an active network.
NoActiveNetwork(probe) ==
    ~probe.ok \/ \A i \in 1..Len(lines(probe.stdout)) : ~starts_with(lines(probe.stdout)[i], YES)

\* C20: get_network_info and get_system_info hand back a snapshot, never an
\* error, whatever the probes did: a snapshot whose nmcli probe failed or
\* reported no active network has is_connected = false and no ssid, one whose
\* hostname probe failed has no ip address; after a call has returned no lock
\* is left held and an initialised slot holds a whole snapshot, and while
\* calls are in progress one of them can take its next step, so later calls
\* are served.
C20_TelemetryNeverFails ==
    /\ returned.domain # "none" =>
          /\ returned.value # None
          /\ returned.domain = "network" =>
                /\ Len(returned.probes) = 2
                /\ NoActiveNetwork(returned.probes[1]) =>
                      /\ returned.value[1].is_connected = FALSE
                      /\ returned.value[1].ssid = None
                /\ ~returned.probes[2].ok => returned.value[1].ip_address = None
    /\ (\A t \in Callers : pc[t] = "idle") =>
          /\ sys_mutex = NoThread
          /\ \A d \in Domains :
                /\ cacheLock[d] = NoThread
                /\ cacheOnce[d] # "running"
                /\ cacheOnce[d] = "done" => (Whole(cache[d]) /\ cache[d].value # None)
    /\ (\E t \in Callers : pc[t] # "idle") =>
          \E t \in Callers :
              ENABLED (\/ SysOnce(t) \/ SysInit(t) \/ CacheOnce(t)
                       \/ \E o \in Outcomes : InitProbe(t, o)
                       \/ InitStore(t) \/ Check(t)
                       \/ \E o \in Outcomes : RunProbes(t, o)
                       \/ StoreStamp(t) \/ StoreHead(t) \/ StoreRest(t))

\* A snapshot built when the nmcli and hostname probes both failed was stored,
\* and a call was served that snapshot from the cache.
C20_Witness ==
    /\ returned.domain = "network" /\ returned.path = "cached"
    /\ invoked >= 2
    /\ returned.head > 0
    /\ ~returned.probes[1].ok /\ ~returned.probes[2].ok
    /\ returned.value = Some([is_connected |-> FALSE, ssid |-> None,
                              signal_strength |-> None, ip_address |-> None])

(***************************************************************************)
(* Further properties of the telemetry caches.                             *)
(***************************************************************************)

\* C22: the caller that found the slot expired keeps the domain's cache lock
\* from its freshness check until it has stored the new snapshot and
\* timestamp: while it is between the check and the end of the store it is
\* the holder of that lock.
C22_LockKeptFromCheckToStore ==
    \A t \in Threads :
        pc[t] \in {"probe", "store_stamp", "store_head", "store_rest"}
            => cacheLock[cmd[t]] = t

\* The mutexes a thread holds.
LocksHeld(t) ==
    (IF sys_mutex = t THEN {"sysinfo"} ELSE {}) \cup {d \in Domains : cacheLock[d] = t}

\* C23: in every reachable state a thread that holds one mutex (the sysinfo
\* handle lock, the system cache lock or the network cache lock) holds no
\* other.
C23_AtMostOneLockHeld == \A t \in Threads : Cardinality(LocksHeld(t)) <= 1

\* C24: a call that finds the slot younger than its TTL returns the stored
\* snapshot, runs no probe, and leaves the slot's snapshot and timestamp
\* unchanged; and a slot changes only in a step of a call of its own domain.
C24_FreshHitLeavesSlot ==
    [][/\ \A t \in Threads :
            (/\ pc[t] = "check" /\ pc'[t] # pc[t]
             /\ Fresh(cmd[t], cache[cmd[t]].last_refresh))
                => /\ pc'[t] = "idle"
                   /\ returned'.domain = cmd[t] /\ returned'.path = "cached"
                   /\ returned'.head = cache[cmd[t]].head
                   /\ returned'.rest = cache[cmd[t]].rest
                   /\ returned'.value = cache[cmd[t]].value
                   /\ cache' = cache
                   /\ info' = info
       /\ \A d \in Domains :
            cache'[d] # cache[d] => \E t \in Threads : cmd[t] = d /\ pc'[t] # pc[t]]_vars

\* A call was served from the network slot one second or more after the
\* probes of the stored snapshot had run, while the other slot holds a
\* snapshot of its own.
C24_Witness ==
    /\ returned.domain = "network" /\ returned.path = "cached"
    /\ returned.age >= 1
    /\ cache["network"].head = returned.head
    /\ cacheOnce["system"] = "done"

\* C27: the probe time of the snapshot stored in a slot never goes backwards,
\* and whenever the slot can be read its timestamp is not later than the
\* probe time of the data it accompanies.
C27_StoredSnapshotNeverOlder ==
    /\ [](\A d \in Domains :
            (cacheLock[d] = NoThread /\ cacheOnce[d] = "done")
                => cache[d].last_refresh <= cache[d].head)
    /\ [][\A d \in Domains : cache'[d].head >= cache[d].head]_vars

\* C28: under fair scheduling, with every probe returning, every started call
\* of get_system_info and get_network_info eventually returns.
C28_EveryCallReturns == \A t \in Threads : (pc[t] # "idle") ~> (pc[t] = "idle")

\* Two calls of get_system_info are in progress at once, the first of them
\* inside the cache initialiser with the sysinfo lock held, the other waiting
\* for the initialiser.
C28_Witness ==
    \E t1, t2 \in Threads :
        /\ t1 # t2
        /\ cmd[t1] = "system" /\ pc[t1] = "init_store" /\ sys_mutex = t1
        /\ cmd[t2] = "system" /\ pc[t2] = "cache_once"

(***************************************************************************)
(* Further properties of the media and wallpaper commands.                 *)
(***************************************************************************)

KnownActions == {"play", "pause", "next", "previous"}

\* The calls of a method on the chosen player (not of the finder or of the
\* enumeration).
PlayerCalls == {i \in 1..Len(trace) :
                  trace[i].cmd = "MPRIS" /\ trace[i].args[1] \notin {"PlayerFinder::new", "find_all"}}

\* C25: media_control with an unknown action returns an error and contacts no
\* backend; with a known action playerctl is invoked, once and last, exactly
\* when no call on a chosen player succeeded: the finder or the enumeration
\* was unavailable, no player was chosen, or the chosen player's call failed.
C25_FallbackExactlyOnAbsenceOrFailure ==
    (invocation # <<>> /\ invocation[1] = "media_control") =>
        /\ invocation[2] \notin KnownActions =>
              trace = <<>> /\ players = <<>> /\ chosen = 0 /\ ~result.ok
        /\ invocation[2] \in KnownActions =>
              /\ Cardinality(PlayerCalls) <= 1
              /\ PlayerCalls # {} <=> chosen # 0
              /\ Cardinality(Invocations("playerctl")) <= 1
              /\ Invocations("playerctl") # {} <=> \A i \in PlayerCalls : ~trace[i].ok
              /\ Invocations("playerctl") \subseteq {Len(trace)}
              /\ (\E i \in PlayerCalls : trace[i].ok) => result.ok

\* The chosen player's call failed and playerctl then did the work.
C25_Witness ==
    /\ invocation # <<>> /\ invocation[1] = "media_control"
    /\ invocation[2] \in KnownActions
    /\ chosen # 0
    /\ \E i \in PlayerCalls : ~trace[i].ok
    /\ trace[Len(trace)].cmd = "playerctl" /\ trace[Len(trace)].ok
    /\ result.ok

\* A leading run of ASCII lower-case letters followed by "://".
HasScheme(path) ==
    \E i \in 2..(Len(path) - 2) :
        /\ SubSeq(path, i, i + 2) = <<":", "/", "/">>
        /\ \A j \in 1..(i - 1) : \E k \in 1..26 : LowerChars[k] = path[j]

\* C26: the URI set_wallpaper passes to gsettings is the input unchanged when
\* the input is a URI with a scheme, and otherwise the input prefixed with
\* file://; the dark-variant key gets the same URI as the primary key.
C26_UriPassedThroughOrPrefixed ==
    (invocation # <<>> /\ invocation[1] = "set_wallpaper") =>
        /\ HasScheme(invocation[2]) => trace[1].args[4] = invocation[2]
        /\ ~HasScheme(invocation[2]) => trace[1].args[4] = FILE \o invocation[2]
        /\ Len(trace) >= 2 => trace[2].args[4] = trace[1].args[4]

\* C29: when the primary picture-uri assignment fails, set_wallpaper issues no
\* further command and leaves the settings file as it was; a step of
\* set_wallpaper changes the settings file only after a successful primary
\* assignment.
C29_FailedPrimaryChangesNothing ==
    [][(NoCommand /\ invocation' # <<>> /\ invocation'[1] = "set_wallpaper") =>
          /\ ~trace'[1].ok => (Len(trace') = 1 /\ settings_file' = settings_file)
          /\ settings_file' # settings_file => (trace'[1].ok /\ Len(trace') >= 3)]_vars

\* The primary assignment failed while the settings file held a document with
\* another wallpaper, which it still holds.
C29_Witness ==
    /\ invocation # <<>> /\ invocation[1] = "set_wallpaper"
    /\ ~trace[1].ok /\ Len(trace) = 1
    /\ settings_file.kind = "document"
    /\ settings_file.settings.wallpaper # invocation[2]

\* A value get_settings returned (not the result of a save).
Loaded == "wallpaper" \in DOMAIN result

\* C21: a get_settings that runs while a save_settings is in progress is
\* handed a complete document, the old one or the new one, never the defaults
\* it falls back to when the file is empty or partially written.
C21_LoadSeesWholeDocument ==
    (~NoCommand /\ Loaded) =>
        /\ result \in SavedDocuments
        /\ result # DefaultSettings

====
